---- MODULE Spec2Model ----
(***************************************************************************)
(* A model of seui.js: the State deep reactive proxy (src/seui.js          *)
(* 1287-1418) and the lifecycle-aware Router (src/seui.js 929-1212).       *)
(*                                                                         *)
(* JavaScript runs one task at a time.  A task is a stretch of synchronous *)
(* application code; the microtasks queued during it run after it has      *)
(* returned and before the next task starts.                               *)
(***************************************************************************)
EXTENDS Integers, Sequences, FiniteSets, TLC

\* ------------------------------------------------------------------ bounds
MaxObj == 3        \* plain objects ever allocated
MaxProxies == 3    \* State() wrappers ever created
MaxSubs == 2       \* registrations held at one time, over all wrappers
MaxClosures == 1   \* unsubscribe closures the application keeps
MaxQueue == 2      \* microtasks pending at one time

\* ------------------------------------------------------------------ values
Keys == {"a", "b"}           \* property names used by the application
CB == {"f", "g"}             \* the application's callback functions
Writers == {"h"}             \* h is (target) => { target.b = 1 }
NullKey == "null"            \* subscribe's default specificKey = null
ZeroKey == "+0"              \* the number 0 passed as specificKey
SubKeyArgs == Keys \cup {"", NullKey}

\* A JavaScript value: t is its kind, v its payload (a number, an object id,
\* a wrapper id).  Absent marks "no own property" in a store slot.
Undefined == [t |-> "undefined", v |-> 0]
Absent == [t |-> "absent", v |-> 0]
Num(n) == [t |-> "number", v |-> n]
Obj(i) == [t |-> "object", v |-> i]
Prx(i) == [t |-> "proxy", v |-> i]
Bool(b) == [t |-> "boolean", v |-> IF b THEN 1 ELSE 0]
Nums == {Num(1), Num(2)}
\* an Error thrown to the caller
Error(message) == [t |-> "error", v |-> 0, message |-> message]

NoOp == [op |-> "init", p |-> 0, k |-> "", cb |-> "", v |-> Undefined,
         ret |-> Undefined]

VARIABLES
    store,      \* object id -> property name -> value (the heap of plain objects)
    nobj,       \* number of objects allocated
    proxies,    \* the wrappers State() has returned, by id
    closures,   \* unsubscribe functions returned by subscribe and still held
    mq,         \* the microtask queue
    inTask,     \* synchronous application code is running
    calls,      \* the callback invocations made by the last step, in order
    lastOp,     \* the last operation the application performed, with its result
    page        \* the browser page: location, hashchange events, DOM, the Router

stateVars == <<store, nobj, proxies, closures, mq, inTask, calls, lastOp>>
vars == <<store, nobj, proxies, closures, mq, inTask, calls, lastOp, page>>

\* ------------------------------------------------------------ JS Set / Map
Range(s) == {s[i] : i \in 1..Len(s)}
\* (mutant) Array.prototype.push in the place of Set.prototype.add
ArrayPush(s, x) == Append(s, x)
\* Set.prototype.add: insertion ordered, no duplicates
SetAdd(s, x) == IF x \in Range(s) THEN s ELSE Append(s, x)
\* Set.prototype.delete
SetDelete(s, x) == SelectSeq(s, LAMBDA y : y # x)
EmptyMap == [k \in {} |-> <<>>]
MapSet(m, k, x) == [j \in DOMAIN m \cup {k} |-> IF j = k THEN x ELSE m[j]]

\* currentTarget[key] on a plain object
Read(st, o, k) == IF st[o][k] = Absent THEN Undefined ELSE st[o][k]
\* the plain object behind a wrapper or an object reference
Underlying(px, val) == IF val.t = "proxy" THEN px[val.v].target ELSE val.v
\* (mutant) if (specificKey !== null)
NotNull(key) == key # NullKey
\* if (specificKey)
Truthy(key) == key \notin {"", ZeroKey, NullKey}

\* ------------------------------------------------------------------ State
\* State(target, isAsync) for a plain object: fresh subscriber collections
StateNew(target, isAsync) ==
    [target |-> target, isAsync |-> isAsync,
     subscribers |-> <<>>, propertySubscribers |-> EmptyMap]

\* typeof target; a value's t is its typeof for a primitive, and for an object
\* "null", the class it is an instance of (String, Boolean, Number, Set, Map)
\* or "object" for any other object
typeOf(target) ==
    IF target.t \in {"null", "String", "Boolean", "Number", "Set", "Map", "object"}
    THEN "object"
    ELSE target.t

\* (mutant) the type switch of State without the test for Map
StateNoMapTest(target) ==
    LET type == typeOf(target)
    IN  IF type \in {"undefined", "string", "number", "boolean", "bigint", "symbol"}
        THEN [thrown |-> "", boxed |-> TRUE]
        ELSE IF type = "object"
        THEN IF target.t \in {"null", "String", "Boolean", "Number"}
             THEN [thrown |-> "", boxed |-> TRUE]
             ELSE IF target.t = "Set"
             THEN [thrown |-> "State cannot observe \"Set\" type", boxed |-> FALSE]
             ELSE [thrown |-> "", boxed |-> FALSE]
        ELSE [thrown |-> "State cannot observe \"" \o type \o "\" type",
              boxed |-> FALSE]

\* State(target), the switch on typeof target: the Error it throws ("" when it
\* returns a wrapper), and whether the wrapper is of { value: target } (boxed)
\* or of the target itself
State(target) ==
    LET type == typeOf(target)
    IN  IF type \in {"undefined", "string", "number", "boolean", "bigint", "symbol"}
        THEN [thrown |-> "", boxed |-> TRUE]
        ELSE IF type = "object"
        THEN IF target.t \in {"null", "String", "Boolean", "Number"}
             THEN [thrown |-> "", boxed |-> TRUE]
             ELSE IF target.t = "Set"
             THEN [thrown |-> "State cannot observe \"Set\" type", boxed |-> FALSE]
             ELSE IF target.t = "Map"
             THEN [thrown |-> "State cannot observe \"Map\" type", boxed |-> FALSE]
             ELSE [thrown |-> "", boxed |-> FALSE]
        ELSE [thrown |-> "State cannot observe \"" \o type \o "\" type",
              boxed |-> FALSE]

\* (mutant) one pair of subscriber collections shared by every wrapper
notifySubscribersShared(px, p, target, key, oldValue, newValue) ==
    LET inv(q, c, scope) == [node |-> q, cb |-> c, scope |-> scope,
                             target |-> target, key |-> key, old |-> oldValue,
                             new |-> newValue, seen |-> Undefined]
        of(q) == [i \in 1..Len(px[q].subscribers) |->
                        inv(q, px[q].subscribers[i], NullKey)]
                 \o (IF key \in DOMAIN px[q].propertySubscribers
                     THEN [i \in 1..Len(px[q].propertySubscribers[key]) |->
                            inv(q, px[q].propertySubscribers[key][i], key)]
                     ELSE <<>>)
        all[i \in 0..Len(px)] == IF i = 0 THEN <<>> ELSE all[i - 1] \o of(i)
    IN  all[Len(px)]

\* (mutant) the specific subscribers are notified before the general ones
notifySubscribersSpecificFirst(px, p, target, key, oldValue, newValue) ==
    LET inv(c, scope) == [node |-> p, cb |-> c, scope |-> scope,
                          target |-> target, key |-> key, old |-> oldValue,
                          new |-> newValue, seen |-> Undefined]
        general == [i \in 1..Len(px[p].subscribers) |->
                        inv(px[p].subscribers[i], NullKey)]
        ps == px[p].propertySubscribers
        specific == IF key \in DOMAIN ps
                    THEN [i \in 1..Len(ps[key]) |-> inv(ps[key][i], key)]
                    ELSE <<>>
    IN  specific \o general

\* notifySubscribers of wrapper p: one invocation per general subscriber, then
\* one per subscriber of `key`, each in Set order.  An invocation records the
\* wrapper whose collections held the callback (node), the collection it was
\* taken from (scope: NullKey for `subscribers`, else the Map key) and the
\* four arguments.
notifySubscribers(px, p, target, key, oldValue, newValue) ==
    LET inv(c, scope) == [node |-> p, cb |-> c, scope |-> scope,
                          target |-> target, key |-> key, old |-> oldValue,
                          new |-> newValue, seen |-> Undefined]
        general == [i \in 1..Len(px[p].subscribers) |->
                        inv(px[p].subscribers[i], NullKey)]
        ps == px[p].propertySubscribers
        specific == IF key \in DOMAIN ps
                    THEN [i \in 1..Len(ps[key]) |-> inv(ps[key][i], key)]
                    ELSE <<>>
    IN  general \o specific

\* a callback runs: it reads the property it is told about
Invoke(st, px, n) ==
    [n EXCEPT !.seen = Read(st, Underlying(px, n.target), n.key)]

\* (mutant) executeCallback that ignores isAsync and always runs inline
executeCallbackInline(st, px, p, notes) ==
    [run |-> [i \in 1..Len(notes) |-> Invoke(st, px, notes[i])],
     queued |-> <<>>]

\* executeCallback over a list of invocations: queued when isAsync, else run
\* inline.  Returns the invocations run now and the microtasks queued.
executeCallback(st, px, p, notes) ==
    IF px[p].isAsync
    THEN [run |-> <<>>, queued |-> notes]
    ELSE [run |-> [i \in 1..Len(notes) |-> Invoke(st, px, notes[i])],
          queued |-> <<>>]

\* (mutant) handler.get returning a new wrapper without storing it
handlerGetNoMemo(st, px, p, key) ==
    LET t == px[p].target
        prop == Read(st, t, key)
    IN  IF prop.t = "object"
        THEN [store |-> st,
              proxies |-> Append(px, StateNew(prop.v, px[p].isAsync)),
              ret |-> Prx(Len(px) + 1)]
        ELSE [store |-> st, proxies |-> px, ret |-> prop]

\* (mutant) handler.get that reuses the wrapper an object already has
handlerGetReuse(st, px, p, key) ==
    LET t == px[p].target
        prop == Read(st, t, key)
        has == {q \in 1..Len(px) : px[q].target = prop.v}
    IN  IF prop.t = "object" /\ has # {}
        THEN LET st2 == [st EXCEPT ![t][key] = Prx(CHOOSE q \in has : TRUE)]
             IN  [store |-> st2, proxies |-> px, ret |-> Read(st2, t, key)]
        ELSE IF prop.t = "object"
        THEN LET w == Len(px) + 1
                 st2 == [st EXCEPT ![t][key] = Prx(w)]
             IN  [store |-> st2,
                  proxies |-> Append(px, StateNew(prop.v, px[p].isAsync)),
                  ret |-> Read(st2, t, key)]
        ELSE [store |-> st, proxies |-> px, ret |-> prop]

\* handler.get for a data key
handlerGet(st, px, p, key) ==
    LET t == px[p].target
        prop == Read(st, t, key)
    IN  IF prop.t = "object"
        THEN LET w == Len(px) + 1
                 st2 == [st EXCEPT ![t][key] = Prx(w)]
             IN  [store |-> st2,
                  proxies |-> Append(px, StateNew(prop.v, px[p].isAsync)),
                  ret |-> Read(st2, t, key)]
        ELSE [store |-> st, proxies |-> px, ret |-> prop]

\* (mutant) handler.set without the oldValue !== newValue test
handlerSetAlways(st, px, p, key, newValue) ==
    LET t == px[p].target
        oldValue == Read(st, t, key)
        st2 == [st EXCEPT ![t][key] = newValue]
        notes == notifySubscribers(px, p, Prx(p), key, oldValue, newValue)
    IN  [store |-> st2, out |-> executeCallback(st2, px, p, notes)]

\* (mutant) handler.set that also notifies the root wrapper's subscribers
handlerSetBubble(st, px, p, key, newValue) ==
    LET t == px[p].target
        oldValue == Read(st, t, key)
        st2 == [st EXCEPT ![t][key] = newValue]
        notes == IF oldValue # newValue
                 THEN notifySubscribers(px, p, Prx(p), key, oldValue, newValue)
                      \o (IF p # 1
                          THEN notifySubscribers(px, 1, Prx(p), key, oldValue,
                                                 newValue)
                          ELSE <<>>)
                 ELSE <<>>
    IN  [store |-> st2, out |-> executeCallback(st2, px, p, notes)]

\* handler.set
handlerSet(st, px, p, key, newValue) ==
    LET t == px[p].target
        oldValue == Read(st, t, key)
        st2 == [st EXCEPT ![t][key] = newValue]
        notes == IF oldValue # newValue
                 THEN notifySubscribers(px, p, Prx(p), key, oldValue, newValue)
                 ELSE <<>>
    IN  [store |-> st2, out |-> executeCallback(st2, px, p, notes)]

\* (mutant) deleteProperty passing the wrapper to the subscribers
handlerDeleteWrapper(st, px, p, key) ==
    LET t == px[p].target
        oldValue == Read(st, t, key)
        st2 == [st EXCEPT ![t][key] = Absent]
        notes == notifySubscribers(px, p, Prx(p), key, oldValue, Undefined)
    IN  [store |-> st2, out |-> executeCallback(st2, px, p, notes)]

\* handler.deleteProperty
handlerDelete(st, px, p, key) ==
    LET t == px[p].target
        oldValue == Read(st, t, key)
        st2 == [st EXCEPT ![t][key] = Absent]
        notes == notifySubscribers(px, p, Obj(t), key, oldValue, Undefined)
    IN  [store |-> st2, out |-> executeCallback(st2, px, p, notes)]

\* target.b = 1 in the body of a callback, target being its first argument:
\* through a wrapper the assignment is handler.set, on the plain object it is
\* a plain store
assignThrough(st, px, target, key, newValue) ==
    IF target.t = "proxy" THEN handlerSet(st, px, target.v, key, newValue)
    ELSE [store |-> [st EXCEPT ![target.v][key] = newValue],
          out |-> [run |-> <<>>, queued |-> <<>>]]

\* (mutant) a queued invocation runs only if its callback is still registered
microtaskIfSubscribed(st, px, n) ==
    LET regs == IF n.scope = NullKey THEN px[n.node].subscribers
                ELSE IF n.scope \in DOMAIN px[n.node].propertySubscribers
                THEN px[n.node].propertySubscribers[n.scope]
                ELSE <<>>
    IN  [store |-> st,
         run |-> IF n.cb \in Range(regs) THEN <<Invoke(st, px, n)>> ELSE <<>>,
         queued |-> <<>>]

\* the function passed to queueMicrotask, for invocation n: the callback is
\* called, and a callback of Writers assigns 1 to property b of its first
\* argument.  Returns the store afterwards, the calls made and the microtasks
\* queued.
microtask(st, px, n) ==
    IF n.cb \in Writers
    THEN LET r == assignThrough(st, px, n.target, "b", Num(1))
         IN  [store |-> r.store,
              run |-> <<Invoke(st, px, n)>> \o r.out.run,
              queued |-> r.out.queued]
    ELSE [store |-> st, run |-> <<Invoke(st, px, n)>>, queued |-> <<>>]

\* the function handler.get returns for 'subscribe'
subscribe(px, p, callback, specificKey) ==
    IF callback \notin CB \cup Writers
    THEN [proxies |-> px, thrown |-> "Subscribe callback must be a function.",
          ret |-> [p |-> p, cb |-> callback, keyed |-> FALSE, key |-> ""]]
    ELSE IF Truthy(specificKey)
    THEN LET ps == px[p].propertySubscribers
             cur == IF specificKey \in DOMAIN ps THEN ps[specificKey] ELSE <<>>
         IN  [proxies |-> [px EXCEPT ![p].propertySubscribers =
                              MapSet(ps, specificKey, SetAdd(cur, callback))],
              thrown |-> "",
              ret |-> [p |-> p, cb |-> callback, keyed |-> TRUE,
                       key |-> specificKey]]
    ELSE [proxies |-> [px EXCEPT ![p].subscribers = SetAdd(@, callback)],
          thrown |-> "",
          ret |-> [p |-> p, cb |-> callback, keyed |-> FALSE, key |-> ""]]

\* the function handler.get returns for 'unsubscribe'
unsubscribe(px, p, callback, specificKey) ==
    IF Truthy(specificKey)
    THEN IF specificKey \in DOMAIN px[p].propertySubscribers
         THEN [px EXCEPT ![p].propertySubscribers[specificKey] =
                  SetDelete(@, callback)]
         ELSE px
    ELSE [px EXCEPT ![p].subscribers = SetDelete(@, callback)]

\* (mutant) the closure removes the callback from every collection
unsubscribeFnEverywhere(px, c) ==
    [proxies |-> [px EXCEPT ![c.p] =
                    [@ EXCEPT !.subscribers = SetDelete(@, c.cb),
                              !.propertySubscribers =
                                  [k \in DOMAIN @ |-> SetDelete(@[k], c.cb)]]],
     ret |-> Bool(TRUE)]

\* the closure subscribe returned, called: () => <Set>.delete(callback), whose
\* result it returns
unsubscribeFn(px, c) ==
    IF c.keyed
    THEN [proxies |-> [px EXCEPT ![c.p].propertySubscribers[c.key] =
                          SetDelete(@, c.cb)],
          ret |-> Bool(c.cb \in Range(px[c.p].propertySubscribers[c.key]))]
    ELSE [proxies |-> [px EXCEPT ![c.p].subscribers = SetDelete(@, c.cb)],
          ret |-> Bool(c.cb \in Range(px[c.p].subscribers))]

\* ------------------------------------------------------------ bookkeeping
NSubs(px) ==
    LET count[i \in 0..Len(px)] ==
            IF i = 0 THEN 0
            ELSE count[i - 1] + Len(px[i].subscribers)
                 + (LET ps == px[i].propertySubscribers
                        sum[S \in SUBSET DOMAIN ps] ==
                            IF S = {} THEN 0
                            ELSE LET k == CHOOSE x \in S : TRUE
                                 IN  Len(ps[k]) + sum[S \ {k}]
                    IN  sum[DOMAIN ps])
    IN  count[Len(px)]

Live == 1..Len(proxies)
EmptyObject == [k \in Keys |-> Absent]

\* ================================================================== Router
\* ------------------------------------------------------------------ bounds
MaxNodes == 5      \* DOM nodes in existence, the root element included
MaxEvents == 2     \* hashchange events waiting to be dispatched
MaxPasses == 2     \* update() calls suspended at their await
MaxObservers == 1  \* observers of router.state

\* ------------------------------------------------------------------ strings
Base == "http://h/"              \* document.URL up to the fragment
URL(h) == Base \o h              \* document.URL for location.hash = h
Digits == {"0", "1", "2", "3", "4", "5", "6", "7", "8", "9"}
Min(S) == CHOOSE i \in S : \A j \in S : i <= j
Max(S) == CHOOSE i \in S : \A j \in S : i >= j

\* String.prototype.indexOf counted from 1; 0 when t does not occur in s
IndexOf(s, t) ==
    LET P == {i \in 1..(Len(s) - Len(t) + 1) : SubSeq(s, i, i + Len(t) - 1) = t}
    IN  IF P = {} THEN 0 ELSE Min(P)

\* key.indexOf("#!/") === 0
IsPattern(key) == IndexOf(key, "#!/") = 1

\* new RegExp(key) for the keys route tables use: literal text and groups
\* "(.+)" or "(\d+)".  Parse gives the key's items in order.
RECURSIVE Parse(_)
Parse(k) ==
    IF k = "" THEN <<>>
    ELSE LET g == IndexOf(k, "(")
             c == IndexOf(k, ")")
         IN  IF g = 0 THEN <<[lit |-> k, cls |-> ""]>>
             ELSE (IF g > 1 THEN <<[lit |-> SubSeq(k, 1, g - 1), cls |-> ""]>>
                   ELSE <<>>)
                  \o <<[lit |-> "", cls |-> SubSeq(k, g + 1, c - 2)]>>
                  \o Parse(SubSeq(k, c + 1, Len(k)))
InClass(cls, ch) == IF cls = "\\d" THEN ch \in Digits ELSE TRUE

\* the match of the items at position p of url: a group takes the longest run
\* that lets the rest match (greedy, backtracking)
RECURSIVE MatchAt(_, _, _)
MatchAt(items, url, p) ==
    IF items = <<>> THEN [ok |-> TRUE, groups |-> <<>>]
    ELSE LET it == Head(items)
         IN  IF it.cls = ""
             THEN IF /\ p + Len(it.lit) - 1 <= Len(url)
                     /\ SubSeq(url, p, p + Len(it.lit) - 1) = it.lit
                  THEN MatchAt(Tail(items), url, p + Len(it.lit))
                  ELSE [ok |-> FALSE, groups |-> <<>>]
             ELSE LET L == {n \in 1..(Len(url) - p + 1) :
                              /\ \A m \in p..(p + n - 1) :
                                    InClass(it.cls, SubSeq(url, m, m))
                              /\ MatchAt(Tail(items), url, p + n).ok}
                  IN  IF L = {} THEN [ok |-> FALSE, groups |-> <<>>]
                      ELSE [ok |-> TRUE,
                            groups |-> <<SubSeq(url, p, p + Max(L) - 1)>>
                                       \o MatchAt(Tail(items), url,
                                                  p + Max(L)).groups]

\* url.match(new RegExp(key)): the search is unanchored, the leftmost match
\* wins; groups is match.slice(1)
RegExpMatch(key, url) ==
    LET items == Parse(key)
        P == {p \in 1..(Len(url) + 1) : MatchAt(items, url, p).ok}
    IN  IF P = {} THEN [ok |-> FALSE, groups |-> <<>>]
        ELSE MatchAt(items, url, Min(P))

\* encodeURIComponent, for the characters error messages are made of
EncodeChar(c) ==
    IF c = " " THEN "%20"
    ELSE IF c = "/" THEN "%2F"
    ELSE IF c = "%" THEN "%25"
    ELSE c
encodeURIComponent(s) ==
    LET enc[i \in 0..Len(s)] ==
            IF i = 0 THEN "" ELSE enc[i - 1] \o EncodeChar(SubSeq(s, i, i))
    IN  enc[Len(s)]

\* -------------------------------------------------------------- Observable
Null == [t |-> "null", v |-> 0]
\* !data
Falsy(d) == d \in {Undefined, Null, Num(0), Bool(FALSE)}
\* new Observable({ newURL: "", oldURL: "", data: null })
InitialValue == [newURL |-> "", oldURL |-> "", data |-> Null]

\* ---------------------------------------------------------------- DOM nodes
Body == 1                        \* document.body, the root the page passes to init
NoNode == 0                      \* undefined
\* createElement: listeners is "_listeners holds the node's onmount/onunmount";
\* throws is the message of the Error those callbacks throw, "" when they
\* return normally
NewNode(kind) ==
    [kind |-> kind, listeners |-> TRUE, throws |-> "", childNodes |-> <<>>]
BodyNode ==
    [kind |-> "element", listeners |-> FALSE, throws |-> "", childNodes |-> <<>>]

\* one entry of the step's log
Entry(ev, n, s) == [ev |-> ev, n |-> n, s |-> s, args |-> <<>>, heard |-> FALSE]
Log(pg, e) == [pg EXCEPT !.log = Append(@, e)]

\* element.children: the child nodes that are elements
Children(nodes, n) ==
    SelectSeq(nodes[n].childNodes, LAMBDA c : nodes[c].kind = "element")

\* target.dispatchEvent(event): the listeners of the target are called; an
\* exception a listener throws is reported to the window (an uncaught error)
\* and does not reach the caller of dispatchEvent
dispatchEvent(nodes, target, type) ==
    <<[Entry(type, target, "") EXCEPT !.heard = nodes[target].listeners]>>
    \o (IF nodes[target].listeners /\ nodes[target].throws # ""
        THEN <<Entry("report", target, nodes[target].throws)>>
        ELSE <<>>)

\* invokeEvent(target, event): the dispatchEvent calls it makes, in order
RECURSIVE invokeEvent(_, _, _)
invokeEvent(nodes, target, type) ==
    IF target = NoNode THEN <<>>
    ELSE LET kids == Children(nodes, target)
             each[i \in 0..Len(kids)] ==
                 IF i = 0 THEN <<>>
                 ELSE each[i - 1] \o invokeEvent(nodes, kids[i], type)
         IN  dispatchEvent(nodes, target, type) \o each[Len(kids)]

\* the element and the elements below it
RECURSIVE Subtree(_, _)
Subtree(nodes, n) ==
    {n} \cup UNION {Subtree(nodes, c) : c \in Range(Children(nodes, n))}

\* removeEventListeners(element)
removeEventListeners(nodes, element) ==
    IF element = NoNode THEN nodes
    ELSE [n \in DOMAIN nodes |->
            IF n \in Subtree(nodes, element)
            THEN [nodes[n] EXCEPT !.listeners = FALSE] ELSE nodes[n]]

\* root.replaceChildren(node): a fragment hands its children over
replaceChildren(nodes, root, n) ==
    IF nodes[n].kind = "fragment"
    THEN [nodes EXCEPT ![root].childNodes = nodes[n].childNodes,
                       ![n].childNodes = <<>>]
    ELSE [nodes EXCEPT ![root].childNodes = <<n>>]

\* ---------------------------------------------------------- route handlers
\* The application's handlers, by what a call does: build an element, a
\* fragment holding one element, a text node, an element whose onmount and
\* onunmount throw an Error with a message ("thrower"); return false; throw
\* an Error with a message; return a promise that settles later (and, when it
\* rejects, rejects with an Error with that message).
Handler(do, message) == [do |-> do, message |-> message]
Returns(do) == Handler(do, "")
Message == "no page"
Created(nodes, do) ==
    IF do = "fragment"
    THEN nodes \o <<[NewNode("fragment") EXCEPT !.childNodes = <<Len(nodes) + 2>>],
                    NewNode("element")>>
    ELSE nodes \o <<NewNode(do)>>
callHandler(nodes, h) ==
    IF h.do \in {"element", "fragment", "text"}
    THEN [t |-> "node", n |-> Len(nodes) + 1, nodes |-> Created(nodes, h.do),
          message |-> ""]
    ELSE IF h.do = "thrower"
    THEN [t |-> "node", n |-> Len(nodes) + 1,
          nodes |-> nodes \o <<[NewNode("element") EXCEPT !.throws = h.message]>>,
          message |-> ""]
    ELSE [t |-> h.do, n |-> NoNode, nodes |-> nodes, message |-> h.message]

Table ==
    << [key |-> "/", handler |-> Returns("element")],
       [key |-> "/x", handler |-> Returns("fragment")],
       [key |-> "/t", handler |-> Returns("text")],
       [key |-> "/f", handler |-> Returns("false")],
       [key |-> "/e", handler |-> Handler("throw", Message)],
       [key |-> "/p", handler |-> Handler("promise", Message)],
       [key |-> "#!/error/(.+)", handler |-> Returns("element")] >>

\* ------------------------------------------------------------------ Router
\* window.location.hash = h: an assignment that changes the fragment queues a
\* hashchange event
setHash(pg, h) ==
    LET logged == Log(pg, Entry("hash", NoNode, h))
    IN  IF h = pg.hash THEN logged
        ELSE [logged EXCEPT !.hash = h,
                            !.events = Append(@, [newURL |-> URL(h),
                                                  oldURL |-> URL(pg.hash)])]

\* Observable.update on router.state
stateUpdate(pg, value) ==
    LET notes == [i \in 1..Len(pg.observers) |->
                    [Entry("notify", NoNode, pg.observers[i])
                       EXCEPT !.args = <<value, pg.value>>]]
    IN  [pg EXCEPT !.value = value, !.log = @ \o notes]

\* (mutant) the message goes into the hash as it is
catchRaw(pg, message) == setHash(pg, "#!/error/" \o message)

\* catch (e): window.location.hash = `#!/error/${encodeURIComponent(e.message)}`
catch(pg, message) == setHash(pg, "#!/error/" \o encodeURIComponent(message))

\* (mutant) the unmount event is dispatched only to a component that still
\* has its listeners
lifecycleBeforeRenderOnce(pg, root) ==
    IF pg.active = NoNode \/ ~pg.nodes[pg.active].listeners THEN pg
    ELSE LET own == IF pg.nodes[pg.active].kind = "fragment"
                    THEN dispatchEvent(pg.nodes, pg.active, "unmount")
                    ELSE <<>>
         IN  [pg EXCEPT !.log = @ \o own \o invokeEvent(pg.nodes, root, "unmount")
                                  \o <<Entry("detach", root, "")>>,
                        !.nodes = removeEventListeners(pg.nodes, root)]

\* "lifecycle before render"
lifecycleBeforeRender(pg, root) ==
    IF pg.active = NoNode THEN pg
    ELSE LET own == IF pg.nodes[pg.active].kind = "fragment"
                    THEN dispatchEvent(pg.nodes, pg.active, "unmount")
                    ELSE <<>>
         IN  [pg EXCEPT !.log = @ \o own \o invokeEvent(pg.nodes, root, "unmount")
                                  \o <<Entry("detach", root, "")>>,
                        !.nodes = removeEventListeners(pg.nodes, root)]

\* (mutant) the handler is called with (oldURL, newURL) alone
matchedRouteNoGroups(pg, root, i, groups, newURL, oldURL) ==
    LET call == callHandler(pg.nodes, pg.routes[i].handler)
        called == [Log(pg, [Entry("handler", i, pg.routes[i].key)
                              EXCEPT !.args = <<oldURL, newURL>>])
                      EXCEPT !.nodes = call.nodes]
        un == lifecycleBeforeRender(called, root)
        pass == [root |-> root, newURL |-> newURL, oldURL |-> oldURL,
                 t |-> call.t, n |-> call.n, message |-> call.message]
    IN  IF call.t = "throw" THEN catch(called, call.message)
        ELSE IF call.t = "promise"
        THEN [un EXCEPT !.pending = Append(@, pass)]
        ELSE [un EXCEPT !.micro = Append(@, pass)]

\* update(), route i matched: the handler is called inside the matching loop,
\* then "lifecycle before render", then the await suspends the pass
matchedRoute(pg, root, i, groups, newURL, oldURL) ==
    LET call == callHandler(pg.nodes, pg.routes[i].handler)
        called == [Log(pg, [Entry("handler", i, pg.routes[i].key)
                              EXCEPT !.args = <<oldURL, newURL>> \o groups])
                      EXCEPT !.nodes = call.nodes]
        un == lifecycleBeforeRender(called, root)
        pass == [root |-> root, newURL |-> newURL, oldURL |-> oldURL,
                 t |-> call.t, n |-> call.n, message |-> call.message]
    IN  IF call.t = "throw" THEN catch(called, call.message)
        ELSE IF call.t = "promise"
        THEN [un EXCEPT !.pending = Append(@, pass)]
        ELSE [un EXCEPT !.micro = Append(@, pass)]

\* (mutant) one loop over the table: the first key that matches, exact or
\* pattern, in insertion order
updateFromInsertionOrder(pg, newURL, oldURL) ==
    LET routes == pg.routes
        Hit == {i \in 1..Len(routes) :
                  IF IsPattern(routes[i].key)
                  THEN RegExpMatch(routes[i].key, URL(pg.hash)).ok
                  ELSE pg.hash = "#!" \o routes[i].key}
    IN  IF Hit # {}
        THEN matchedRoute(pg, pg.root, Min(Hit),
                          IF IsPattern(routes[Min(Hit)].key)
                          THEN RegExpMatch(routes[Min(Hit)].key, URL(pg.hash)).groups
                          ELSE <<>>,
                          newURL, oldURL)
        ELSE IF pg.hash # pg.defaultRoute
        THEN setHash(pg, IF IsPattern(pg.defaultRoute) THEN pg.defaultRoute
                         ELSE "#!" \o pg.defaultRoute)
        ELSE pg

\* (mutant) the route is selected by the newURL the call was passed
updateFromNewURL(pg, newURL, oldURL) ==
    LET routes == pg.routes
        Exact == {i \in 1..Len(routes) :
                    ~IsPattern(routes[i].key) /\ newURL = URL("#!" \o routes[i].key)}
        Regex == {i \in 1..Len(routes) :
                    /\ IsPattern(routes[i].key)
                    /\ RegExpMatch(routes[i].key, newURL).ok}
    IN  IF Exact # {}
        THEN matchedRoute(pg, pg.root, Min(Exact), <<>>, newURL, oldURL)
        ELSE IF Regex # {}
        THEN matchedRoute(pg, pg.root, Min(Regex),
                          RegExpMatch(routes[Min(Regex)].key, newURL).groups,
                          newURL, oldURL)
        ELSE IF pg.hash # pg.defaultRoute
        THEN setHash(pg, IF IsPattern(pg.defaultRoute) THEN pg.defaultRoute
                         ELSE "#!" \o pg.defaultRoute)
        ELSE pg

\* the body of update(newURL, oldURL) up to its await
updateFrom(pg, newURL, oldURL) ==
    LET routes == pg.routes
        Exact == {i \in 1..Len(routes) :
                    ~IsPattern(routes[i].key) /\ pg.hash = "#!" \o routes[i].key}
        Regex == {i \in 1..Len(routes) :
                    /\ IsPattern(routes[i].key)
                    /\ RegExpMatch(routes[i].key, URL(pg.hash)).ok}
    IN  IF Exact # {}
        THEN matchedRoute(pg, pg.root, Min(Exact), <<>>, newURL, oldURL)
        ELSE IF Regex # {}
        THEN matchedRoute(pg, pg.root, Min(Regex),
                          RegExpMatch(routes[Min(Regex)].key, URL(pg.hash)).groups,
                          newURL, oldURL)
        ELSE IF pg.hash # pg.defaultRoute
        THEN setHash(pg, IF IsPattern(pg.defaultRoute) THEN pg.defaultRoute
                         ELSE "#!" \o pg.defaultRoute)
        ELSE pg

\* update(newURL, oldURL) up to its await
update(pg, newURL, oldURL) ==
    updateFrom(Log(pg, Entry("update", NoNode, newURL)), newURL, oldURL)

\* (mutant) the state observable is updated before the result is rendered
resumeStateFirst(pg, pass) ==
    IF pass.t = "reject" THEN catch(pg, pass.message)
    ELSE IF pass.t = "node" /\ pass.root = NoNode
    THEN catch(pg, "TypeError")
    ELSE LET n == pass.n
             told == stateUpdate(pg, [pg.value EXCEPT !.newURL = pass.newURL,
                                                      !.oldURL = pass.oldURL])
             own == IF pg.nodes[n].kind = "fragment"
                    THEN dispatchEvent(pg.nodes, n, "mount")
                    ELSE <<>>
             placed == replaceChildren(pg.nodes, pass.root, n)
         IN  IF pass.t = "node"
             THEN [told EXCEPT !.nodes = placed, !.active = n,
                               !.log = @ \o <<Entry("replace", n, ""),
                                              Entry("active", n, "")>> \o own
                                         \o invokeEvent(placed, pass.root, "mount")]
             ELSE told

\* (mutant) a result that is not a node ends the pass at once
resumeNodesOnly(pg, pass) ==
    IF pass.t = "reject" THEN catch(pg, pass.message)
    ELSE IF pass.t = "node" /\ pass.root = NoNode
    THEN catch(pg, "TypeError")
    ELSE IF pass.t # "node" THEN pg
    ELSE LET n == pass.n
             own == IF pg.nodes[n].kind = "fragment"
                    THEN dispatchEvent(pg.nodes, n, "mount")
                    ELSE <<>>
             placed == replaceChildren(pg.nodes, pass.root, n)
             rendered ==
                 [pg EXCEPT !.nodes = placed, !.active = n,
                            !.log = @ \o <<Entry("replace", n, ""),
                                           Entry("active", n, "")>> \o own
                                      \o invokeEvent(placed, pass.root, "mount")]
         IN  stateUpdate(rendered, [rendered.value EXCEPT !.newURL = pass.newURL,
                                                          !.oldURL = pass.oldURL])

\* (mutant) a pass whose location is no longer the current one is dropped
resumeIfCurrent(pg, pass) ==
    IF pass.newURL # URL(pg.hash) THEN pg
    ELSE resumeNodesOnly(pg, pass)

\* update() after its await: render, "lifecycle after render", state.update
resume(pg, pass) ==
    IF pass.t = "reject" THEN catch(pg, pass.message)
    ELSE IF pass.t = "node" /\ pass.root = NoNode
    THEN catch(pg, "TypeError")
    ELSE LET n == pass.n
             own == IF pg.nodes[n].kind = "fragment"
                    THEN dispatchEvent(pg.nodes, n, "mount")
                    ELSE <<>>
             placed == replaceChildren(pg.nodes, pass.root, n)
             rendered ==
                 IF pass.t = "node"
                 THEN [pg EXCEPT !.nodes = placed, !.active = n,
                                 !.log = @ \o <<Entry("replace", n, ""),
                                             Entry("active", n, "")>> \o own
                                           \o invokeEvent(placed, pass.root, "mount")]
                 ELSE pg
         IN  stateUpdate(rendered, [rendered.value EXCEPT !.newURL = pass.newURL,
                                                          !.oldURL = pass.oldURL])

\* (mutant) every init call binds and attaches a listener
initAlwaysAttach(pg, root, defaultRoute, routes) ==
    update([pg EXCEPT !.root = root, !.defaultRoute = defaultRoute,
                      !.routes = routes, !.value = InitialValue,
                      !.bound = TRUE, !.attached = @ + 1],
           URL(pg.hash), "")

\* init(root, defaultRoute, routes)
init(pg, root, defaultRoute, routes) ==
    update([pg EXCEPT !.root = root, !.defaultRoute = defaultRoute,
                      !.routes = routes, !.value = InitialValue,
                      !.bound = TRUE,
                      !.attached = IF pg.bound THEN @ ELSE @ + 1],
           URL(pg.hash), "")

\* go(hash, data)
go(pg, h, data) ==
    LET moved == setHash(pg, h)
    IN  IF Falsy(data) THEN moved
        ELSE stateUpdate(moved, [moved.value EXCEPT !.data = data])

\* setData(data)
setData(pg, data) == stateUpdate(pg, [pg.value EXCEPT !.data = data])

\* (mutant) remove() also drops the passes that are suspended
removeCancel(pg) ==
    [stateUpdate([pg EXCEPT !.root = NoNode, !.defaultRoute = "",
                            !.routes = <<>>, !.observers = <<>>,
                            !.pending = <<>>, !.micro = <<>>],
                 InitialValue)
        EXCEPT !.bound = FALSE,
               !.attached = IF pg.bound THEN @ - 1 ELSE @]

\* remove()
remove(pg) ==
    [stateUpdate([pg EXCEPT !.root = NoNode, !.defaultRoute = "",
                            !.routes = <<>>, !.observers = <<>>],
                 InitialValue)
        EXCEPT !.bound = FALSE,
               !.attached = IF pg.bound THEN @ - 1 ELSE @]

\* window.dispatchEvent(e) for a hashchange event: every attached listener is
\* called, onHashChange(e) calling update(e.newURL, e.oldURL)
RECURSIVE dispatch(_, _, _)
dispatch(pg, e, k) ==
    IF k = 0 THEN pg
    ELSE update(dispatch(pg, e, k - 1), e.newURL, e.oldURL)

\* ------------------------------------------------------------ onceNavigate
MaxOnce == 2            \* onceNavigate calls made by the page

\* onceNavigate(callback): a new listener function is attached to the window
onceNavigate(pg, callback) ==
    [pg EXCEPT !.once = Append(@, [callback |-> callback, attached |-> TRUE])]

\* the function onceNavigate returned for listener i
removeOnce(pg, i) == [pg EXCEPT !.once[i].attached = FALSE]

\* (mutant) the listener calls callback(e) and stays attached
listenerKeep(pg, e, i) ==
    Log(pg, [Entry("callback", i, pg.once[i].callback) EXCEPT !.args = <<e>>])

\* listener(e) of listener i: it removes itself, then calls callback(e)
listener(pg, e, i) ==
    Log(Log([pg EXCEPT !.once[i].attached = FALSE],
            Entry("removeEventListener", i, pg.once[i].callback)),
        [Entry("callback", i, pg.once[i].callback) EXCEPT !.args = <<e>>])

\* the window calls the onceNavigate listeners 1..i that are attached, in the
\* order they were attached
RECURSIVE onceListeners(_, _, _)
onceListeners(pg, e, i) ==
    IF i = 0 THEN pg
    ELSE LET done == onceListeners(pg, e, i - 1)
         IN  IF done.once[i].attached THEN listener(done, e, i) ELSE done

\* the window dispatches a hashchange event to its listeners: the router's
\* onHashChange and the onceNavigate listeners (which do not touch the
\* router; the router's listener is taken first)
dispatchHashChange(pg, e) ==
    onceListeners(dispatch(pg, e, pg.attached), e, Len(pg.once))

\* ------------------------------------------------------- class Observable
MaxSubscriptions == 3   \* entries of an Observable's observers array
MaxValue == 2           \* the largest number an Observable holds

\* the updater functions the application passes to update()
Fn(f) == [t |-> "function", v |-> f]
Identity == Fn(0)                \* v => v
Increment == Fn(1)               \* v => v + 1
Apply(updater, value) ==
    IF updater = Identity THEN value ELSE Num(value.v + 1)

\* no Observable constructed yet
NoObservable ==
    [cls |-> "", value |-> Undefined, observers |-> <<>>, unsubs |-> {}]

\* new Observable(value); cls is "seui" for the class seui.js exports and
\* "docs" for the class of docs/observer-pattern/Observable.js
observableNew(cls, value) ==
    [cls |-> cls, value |-> value, observers |-> <<>>, unsubs |-> {}]

\* subscribe(observer); unsubs are the observers an unsubscribe function was
\* returned for (the class of seui.js returns one, the other returns observer)
observableSubscribe(o, observer) ==
    [o EXCEPT !.observers = Append(@, observer),
              !.unsubs = IF o.cls = "seui" THEN @ \cup {observer} ELSE @]

\* (mutant) the first registration of the observer is removed
observableUnsubscribeFirst(o, observer) ==
    LET at == {i \in 1..Len(o.observers) : o.observers[i] = observer}
    IN  IF at = {} THEN o
        ELSE [o EXCEPT !.observers =
                 SubSeq(@, 1, Min(at) - 1) \o SubSeq(@, Min(at) + 1, Len(@))]

\* unsubscribe(observer)
observableUnsubscribe(o, observer) ==
    [o EXCEPT !.observers = SelectSeq(@, LAMBDA obs : obs # observer)]

\* the observer functions of the application: f and g only record the call;
\* quit is (v, old, observer) => o.unsubscribe(observer), drop is
\* () => o.unsubscribe(f) and join is () => o.subscribe(g). The Observable
\* after the call of observer:
callObserver(o, observer) ==
    CASE observer = "quit" -> observableUnsubscribe(o, observer)
      [] observer = "drop" -> observableUnsubscribe(o, "f")
      [] observer = "join" -> observableSubscribe(o, "g")
      [] OTHER -> o

\* the call forEach makes for one element of the array
observerCall(o, observer, value, oldValue) ==
    [Entry("observer", NoNode, observer)
       EXCEPT !.args = IF o.cls = "seui"
                       THEN <<value, oldValue, observer>>
                       ELSE <<value, oldValue>>]

\* Array.prototype.forEach from index k: array is the array forEach was
\* called on, with the length it had at that time. unsubscribe assigns a new
\* array to this.observers and push appends behind that length, so neither
\* changes an element forEach visits.
RECURSIVE forEachFrom(_, _, _, _, _, _)
forEachFrom(o, array, k, value, oldValue, made) ==
    IF k > Len(array) THEN [o |-> o, calls |-> made]
    ELSE forEachFrom(callObserver(o, array[k]), array, k + 1, value, oldValue,
                     Append(made, observerCall(o, array[k], value, oldValue)))

\* (mutant) an observer removed earlier in the pass is passed over
forEachObserverRegistered(o, value, oldValue) ==
    LET r == forEachFrom(o, o.observers, 1, value, oldValue, <<>>)
    IN  [o |-> r.o,
         calls |-> SelectSeq(r.calls,
                      LAMBDA c : c.s \in Range(r.o.observers) \/ c.s = "quit")]

\* this.observers.forEach(...): the Observable afterwards and the calls made
forEachObserver(o, value, oldValue) ==
    forEachFrom(o, o.observers, 1, value, oldValue, <<>>)

\* (mutant) the observers are called when the value has changed
observableUpdateIfChanged(o, updater) ==
    LET value == IF updater.t = "function" THEN Apply(updater, o.value)
                 ELSE updater
    IN  IF value = o.value THEN [o |-> o, calls |-> <<>>]
        ELSE forEachObserver([o EXCEPT !.value = value], value, o.value)

\* update(updater): the Observable afterwards and the calls made
observableUpdate(o, updater) ==
    LET value == IF updater.t = "function" THEN Apply(updater, o.value)
                 ELSE updater
    IN  forEachObserver([o EXCEPT !.value = value], value, o.value)

\* (mutant) the setter is update(value)
setValueNotify(o, value) == observableUpdate(o, value)

\* set value(value): the class of seui.js stores the value; the class of
\* docs/observer-pattern stores it and calls this.update() with no argument
setValue(o, value) ==
    IF o.cls = "seui" THEN [o |-> [o EXCEPT !.value = value], calls |-> <<>>]
    ELSE observableUpdate([o EXCEPT !.value = value], Undefined)

\* ---------------------------------------------------------------- the page
\* The page as loaded, the Router constructed and nothing rendered.
PageInit ==
    [hash |-> "", events |-> <<>>, bound |-> FALSE, attached |-> 0,
     root |-> NoNode, defaultRoute |-> "", routes |-> <<>>,
     value |-> InitialValue, observers |-> <<>>, active |-> NoNode,
     nodes |-> <<BodyNode>>, pending |-> <<>>, micro |-> <<>>, log |-> <<>>,
     obs |-> NoObservable, once |-> <<>>]

Fresh(pg) == [pg EXCEPT !.log = <<>>]
Bounded(pg) ==
    /\ Len(pg.nodes) <= MaxNodes
    /\ Len(pg.events) <= MaxEvents
    /\ Len(pg.pending) + Len(pg.micro) <= MaxPasses
    /\ Len(pg.observers) <= MaxObservers
    /\ Len(pg.obs.observers) <= MaxSubscriptions
    /\ Len(pg.once) <= MaxOnce

Op(op, k) == [NoOp EXCEPT !.op = op, !.k = k]
StepWith(pg, op, k, v) ==
    /\ Bounded(pg)
    /\ page' = pg
    /\ lastOp' = [Op(op, k) EXCEPT !.v = v]
    /\ UNCHANGED <<store, nobj, proxies, closures, mq, calls>>
Step(pg, op, k) == StepWith(pg, op, k, Undefined)

\* router.init(document.body, defaultRoute, routes)
RouterInitWith(defaultRoute, routes) ==
    /\ inTask
    /\ Step(init(Fresh(page), Body, defaultRoute, routes), "router.init", "")
    /\ UNCHANGED inTask

\* router.init(document.body, "/", Table)
RouterInit == RouterInitWith("/", Table)

\* router.go(h, data)
Go(h, data) ==
    /\ inTask
    /\ StepWith(go(Fresh(page), h, data), "go", h, data)
    /\ UNCHANGED inTask

\* router.setData(data)
SetData(data) ==
    /\ inTask
    /\ StepWith(setData(Fresh(page), data), "setData", "", data)
    /\ UNCHANGED inTask

\* router.remove()
Remove ==
    /\ inTask
    /\ Step(remove(Fresh(page)), "remove", "")
    /\ UNCHANGED inTask

\* router.state.subscribe(o)
Observe(o) ==
    /\ inTask
    /\ Step([Fresh(page) EXCEPT !.observers = Append(@, o)], "observe", o)
    /\ UNCHANGED inTask

\* const o = new Observable(value)
NewObservable(cls, value) ==
    /\ inTask
    /\ page.obs.cls = ""
    /\ StepWith([Fresh(page) EXCEPT !.obs = observableNew(cls, value)],
                "new Observable", cls, value)
    /\ UNCHANGED inTask

\* o.subscribe(observer)
ObservableSubscribe(observer) ==
    /\ inTask
    /\ page.obs.cls # ""
    /\ Step([Fresh(page) EXCEPT !.obs = observableSubscribe(@, observer)],
            "observable.subscribe", observer)
    /\ UNCHANGED inTask

\* o.unsubscribe(observer)
ObservableUnsubscribe(observer) ==
    /\ inTask
    /\ page.obs.cls # ""
    /\ Step([Fresh(page) EXCEPT !.obs = observableUnsubscribe(@, observer)],
            "observable.unsubscribe", observer)
    /\ UNCHANGED inTask

\* a call of the function subscribe(observer) returned
ObservableCallUnsub(observer) ==
    /\ inTask
    /\ observer \in page.obs.unsubs
    /\ Step([Fresh(page) EXCEPT !.obs = observableUnsubscribe(@, observer)],
            "observable.unsub()", observer)
    /\ UNCHANGED inTask

\* o.update(updater)
ObservableUpdate(updater) ==
    /\ inTask
    /\ page.obs.cls # ""
    /\ updater = Increment
          => page.obs.value.t = "number" /\ page.obs.value.v < MaxValue
    /\ LET r == observableUpdate(page.obs, updater)
       IN  StepWith([Fresh(page) EXCEPT !.obs = r.o, !.log = r.calls],
                    "observable.update", "", updater)
    /\ UNCHANGED inTask

\* o.value = value
ObservableSet(value) ==
    /\ inTask
    /\ page.obs.cls # ""
    /\ LET r == setValue(page.obs, value)
       IN  StepWith([Fresh(page) EXCEPT !.obs = r.o, !.log = r.calls],
                    "observable.set", "", value)
    /\ UNCHANGED inTask

\* remove = onceNavigate(callback)
OnceNavigate(callback) ==
    /\ inTask
    /\ Step(onceNavigate(Fresh(page), callback), "onceNavigate", callback)
    /\ UNCHANGED inTask

\* remove(), for the function the i-th onceNavigate call returned
RemoveOnce(i) ==
    /\ inTask
    /\ i \in 1..Len(page.once)
    /\ StepWith(removeOnce(Fresh(page), i), "onceNavigate.remove", "", Num(i))
    /\ UNCHANGED inTask

\* the application's synchronous code returns to the event loop
Return ==
    /\ inTask
    /\ inTask' = FALSE
    /\ Step(Fresh(page), "return", "")

\* the first suspended pass whose promise has settled continues
Resume ==
    /\ ~inTask
    /\ page.micro # <<>>
    /\ Step(resume([Fresh(page) EXCEPT !.micro = Tail(@)], Head(page.micro)),
            "resume", "")
    /\ UNCHANGED inTask

\* the window dispatches the next hashchange event: onHashChange(e), when the
\* listener is attached
HashChange ==
    /\ ~inTask
    /\ page.micro = <<>>
    /\ page.events # <<>>
    /\ LET e == Head(page.events)
           pg == [Fresh(page) EXCEPT !.events = Tail(@)]
       IN  Step(dispatchHashChange(pg, e), "hashchange", "")
    /\ UNCHANGED inTask

\* the promise an asynchronous handler returned settles: it resolves with a
\* new element, or rejects
Settle(i, t) ==
    /\ ~inTask
    /\ page.micro = <<>>
    /\ i \in 1..Len(page.pending)
    /\ LET pass == page.pending[i]
           call == callHandler(page.nodes, Returns("element"))
           rest == [j \in 1..(Len(page.pending) - 1) |->
                       IF j < i THEN page.pending[j] ELSE page.pending[j + 1]]
           done == IF t = "node"
                   THEN [pass EXCEPT !.t = "node", !.n = call.n]
                   ELSE [pass EXCEPT !.t = "reject"]
       IN  Step([Fresh(page) EXCEPT !.pending = rest,
                                    !.micro = Append(@, done),
                                    !.nodes = IF t = "node" THEN call.nodes ELSE @],
                "settle", "")
    /\ UNCHANGED inTask

\* the application's next task starts
Task ==
    /\ ~inTask
    /\ page.micro = <<>>
    /\ inTask' = TRUE
    /\ Step(Fresh(page), "task", "")

\* -------------------------------------------------------------------- Init
\* const node = State({a: {b: 1}}, isAsync)
InitState(isAsync) ==
    /\ nobj = 2
    /\ store = [o \in 1..MaxObj |->
                  IF o = 1 THEN [k \in Keys |-> IF k = "a" THEN Obj(2) ELSE Absent]
                  ELSE IF o = 2
                       THEN [k \in Keys |-> IF k = "b" THEN Num(1) ELSE Absent]
                       ELSE EmptyObject]
    /\ proxies = <<StateNew(1, isAsync)>>
    /\ closures = {}
    /\ mq = <<>>
    /\ inTask = TRUE
    /\ calls = <<>>
    /\ lastOp = NoOp
    /\ page = PageInit

\* ----------------------------------------------------------------- actions
\* s = State(target): target is a primitive, null, a boxed primitive, a Set,
\* a Map, a function, or the plain object with id 2
NewState(target) ==
    /\ inTask
    /\ LET r == State(target)
           o == nobj + 1
           id == Len(proxies) + 1
       IN  IF r.thrown # ""
           THEN /\ lastOp' = [NoOp EXCEPT !.op = "State", !.v = target,
                                          !.ret = Error(r.thrown)]
                /\ UNCHANGED <<store, nobj, proxies>>
           ELSE /\ id <= MaxProxies
                /\ lastOp' = [NoOp EXCEPT !.op = "State", !.v = target,
                                          !.ret = Prx(id)]
                /\ IF r.boxed
                   THEN /\ o <= MaxObj
                        /\ store' = [store EXCEPT ![o] = [k \in {"value"} |-> target]]
                        /\ nobj' = o
                        /\ proxies' = Append(proxies, StateNew(o, FALSE))
                   ELSE /\ proxies' = Append(proxies, StateNew(target.v, FALSE))
                        /\ UNCHANGED <<store, nobj>>
    /\ calls' = <<>>
    /\ UNCHANGED <<closures, mq, inTask, page>>

\* x = node[k]
Get(p, k) ==
    /\ inTask
    /\ LET r == handlerGet(store, proxies, p, k)
       IN  /\ Len(r.proxies) <= MaxProxies
           /\ store' = r.store
           /\ proxies' = r.proxies
           /\ lastOp' = [NoOp EXCEPT !.op = "get", !.p = p, !.k = k, !.ret = r.ret]
    /\ calls' = <<>>
    /\ UNCHANGED <<nobj, closures, mq, inTask, page>>

\* node[k] = v, for a number or a reference the application holds
Assign(p, k, v) ==
    /\ inTask
    /\ LET r == handlerSet(store, proxies, p, k, v)
       IN  /\ Len(mq) + Len(r.out.queued) <= MaxQueue
           /\ store' = r.store
           /\ calls' = r.out.run
           /\ mq' = mq \o r.out.queued
    /\ lastOp' = [NoOp EXCEPT !.op = "set", !.p = p, !.k = k, !.v = v]
    /\ UNCHANGED <<nobj, proxies, closures, inTask, page>>

\* node[k] = {b: 1}: the object literal is allocated, then assigned
AssignNew(p, k) ==
    /\ inTask
    /\ nobj < MaxObj
    /\ LET o == nobj + 1
           st1 == [store EXCEPT ![o] = [j \in Keys |->
                                          IF j = "b" THEN Num(1) ELSE Absent]]
           r == handlerSet(st1, proxies, p, k, Obj(o))
       IN  /\ Len(mq) + Len(r.out.queued) <= MaxQueue
           /\ store' = r.store
           /\ calls' = r.out.run
           /\ mq' = mq \o r.out.queued
           /\ lastOp' = [NoOp EXCEPT !.op = "set", !.p = p, !.k = k, !.v = Obj(o)]
    /\ nobj' = nobj + 1
    /\ UNCHANGED <<proxies, closures, inTask, page>>

\* delete node[k]
Delete(p, k) ==
    /\ inTask
    /\ LET r == handlerDelete(store, proxies, p, k)
       IN  /\ Len(mq) + Len(r.out.queued) <= MaxQueue
           /\ store' = r.store
           /\ calls' = r.out.run
           /\ mq' = mq \o r.out.queued
    /\ lastOp' = [NoOp EXCEPT !.op = "delete", !.p = p, !.k = k]
    /\ UNCHANGED <<nobj, proxies, closures, inTask, page>>

\* un = node.subscribe(cb, key); the application keeps un or drops it
Subscribe(p, cb, key, keep) ==
    /\ inTask
    /\ LET r == subscribe(proxies, p, cb, key)
       IN  /\ NSubs(r.proxies) <= MaxSubs
           /\ proxies' = r.proxies
           /\ closures' = IF keep /\ r.thrown = "" THEN closures \cup {r.ret}
                          ELSE closures
           /\ Cardinality(closures') <= MaxClosures
           /\ lastOp' = [NoOp EXCEPT !.op = "subscribe", !.p = p, !.k = key,
                                     !.cb = cb,
                                     !.ret = IF r.thrown = "" THEN Undefined
                                             ELSE Error(r.thrown)]
    /\ calls' = <<>>
    /\ UNCHANGED <<store, nobj, mq, inTask, page>>

\* node.unsubscribe(cb, key)
Unsubscribe(p, cb, key) ==
    /\ inTask
    /\ proxies' = unsubscribe(proxies, p, cb, key)
    /\ calls' = <<>>
    /\ lastOp' = [NoOp EXCEPT !.op = "unsubscribe", !.p = p, !.k = key, !.cb = cb]
    /\ UNCHANGED <<store, nobj, closures, mq, inTask, page>>

\* un()
CallUnsub(c) ==
    /\ inTask
    /\ LET r == unsubscribeFn(proxies, c)
       IN  /\ proxies' = r.proxies
           /\ lastOp' = [NoOp EXCEPT !.op = "un", !.p = c.p,
                                      !.k = IF c.keyed THEN c.key ELSE NullKey,
                                      !.cb = c.cb, !.ret = r.ret]
    /\ calls' = <<>>
    /\ closures' = closures \ {c}
    /\ UNCHANGED <<store, nobj, mq, inTask, page>>

\* the synchronous code returns to the event loop with microtasks pending
\* (with none pending the next task follows at once: the same state)
EndTask ==
    /\ inTask
    /\ mq # <<>>
    /\ inTask' = FALSE
    /\ calls' = <<>>
    /\ lastOp' = [NoOp EXCEPT !.op = "return"]
    /\ UNCHANGED <<store, nobj, proxies, closures, mq, page>>

\* the first pending microtask runs: () => callback(_target, key, oldValue, newValue)
RunMicrotask ==
    /\ ~inTask
    /\ mq # <<>>
    /\ LET r == microtask(store, proxies, Head(mq))
       IN  /\ Len(Tail(mq)) + Len(r.queued) <= MaxQueue
           /\ store' = r.store
           /\ calls' = r.run
           /\ mq' = Tail(mq) \o r.queued
    /\ lastOp' = [NoOp EXCEPT !.op = "microtask"]
    /\ UNCHANGED <<nobj, proxies, closures, inTask, page>>

\* the next task starts once the microtask queue has drained
BeginTask ==
    /\ ~inTask
    /\ mq = <<>>
    /\ inTask' = TRUE
    /\ calls' = <<>>
    /\ lastOp' = [NoOp EXCEPT !.op = "task"]
    /\ UNCHANGED <<store, nobj, proxies, closures, mq, page>>

\* One node, synchronous: the application works on the root wrapper alone.
NextNode ==
    \/ \E k \in Keys, v \in Nums : Assign(1, k, v)
    \/ \E k \in Keys : Delete(1, k)
    \/ \E cb \in CB, key \in SubKeyArgs : Subscribe(1, cb, key, FALSE)
    \/ \E cb \in CB, key \in SubKeyArgs : Unsubscribe(1, cb, key)

SpecNode == InitState(FALSE) /\ [][NextNode]_vars

\* One node, synchronous, the application passing "", 0 or "a" as the key
\* of subscribe and unsubscribe.
FalsyKeyArgs == {"", ZeroKey, "a"}
NextFalsy ==
    \/ \E k \in Keys, v \in Nums : Assign(1, k, v)
    \/ \E cb \in CB, key \in FalsyKeyArgs : Subscribe(1, cb, key, FALSE)
    \/ \E cb \in CB, key \in FalsyKeyArgs : Unsubscribe(1, cb, key)

SpecFalsy == InitState(FALSE) /\ [][NextFalsy]_vars

\* One node, synchronous, the application keeping the functions subscribe
\* returns and calling them later.
NextUn ==
    \/ \E k \in Keys, v \in Nums : Assign(1, k, v)
    \/ \E cb \in CB, key \in Keys \cup {NullKey}, keep \in BOOLEAN :
            Subscribe(1, cb, key, keep)
    \/ \E cb \in CB, key \in Keys \cup {NullKey} : Unsubscribe(1, cb, key)
    \/ \E c \in closures : CallUnsub(c)

SpecUn == InitState(FALSE) /\ [][NextUn]_vars

\* One node, synchronous, callback f subscribed twice in a scope: the
\* application drops the function the first subscribe call returns, keeps the
\* one the second call returns and calls it later.  The second call is the
\* one that finds f in the set: it leaves the collections as they are.
NextTwice ==
    \/ \E k \in Keys, v \in Nums : Assign(1, k, v)
    \/ \E key \in {"a", NullKey} :
            /\ subscribe(proxies, 1, "f", key).proxies # proxies
            /\ Subscribe(1, "f", key, FALSE)
    \/ \E key \in {"a", NullKey} :
            /\ subscribe(proxies, 1, "f", key).proxies = proxies
            /\ Subscribe(1, "f", key, TRUE)
    \/ \E c \in closures : CallUnsub(c)

SpecTwice == InitState(FALSE) /\ [][NextTwice]_vars

\* One node, asynchronous: State(target, true).  Changes to "b", callback "f"
\* subscribed generally and for "b".
NextAsync ==
    \/ \E v \in Nums : Assign(1, "b", v)
    \/ Delete(1, "b")
    \/ \E key \in {"b", NullKey} : Subscribe(1, "f", key, FALSE)
    \/ \E key \in {"b", NullKey} : Unsubscribe(1, "f", key)
    \/ EndTask
    \/ RunMicrotask
    \/ BeginTask

SpecAsync == InitState(TRUE) /\ [][NextAsync]_vars

\* One node, asynchronous, with callback h, which assigns 1 to property b of
\* its first argument, subscribed generally or for "b".
NextWriter ==
    \/ \E v \in Nums : Assign(1, "b", v)
    \/ Delete(1, "b")
    \/ \E key \in {"b", NullKey} : Subscribe(1, "h", key, FALSE)
    \/ \E key \in {"b", NullKey} : Unsubscribe(1, "h", key)
    \/ EndTask
    \/ RunMicrotask
    \/ BeginTask

SpecWriter == InitState(TRUE) /\ [][NextWriter]_vars

\* The object graph, synchronous: reads wrap nested objects, the root's "a" is
\* replaced by new objects, "b" is assigned on any wrapper, callback "f" is
\* subscribed on any wrapper.
NextGraph ==
    \/ \E p \in Live, k \in Keys : Get(p, k)
    \/ \E p \in Live, v \in Nums : Assign(p, "b", v)
    \/ AssignNew(1, "a")
    \/ \E p \in Live, key \in {"a", "b", NullKey} : Subscribe(p, "f", key, FALSE)

SpecGraph == InitState(FALSE) /\ [][NextGraph]_vars

\* The router's lifecycle: the page initialises the router and navigates
\* between the routes whose handlers build an element, a fragment and a text
\* node; the window dispatches the hashchange events and the passes continue.
NodeHashes == {"#!/", "#!/x", "#!/t"}
NextLifecycle ==
    \/ RouterInit
    \/ \E h \in NodeHashes : Go(h, Undefined)
    \/ Return
    \/ HashChange
    \/ Resume
    \/ Task

SpecLifecycle == InitState(FALSE) /\ [][NextLifecycle]_vars

\* Route matching: the page initialises the router once, with any table of up
\* to MaxRoutes of the user routes in any insertion order, and navigates
\* between hashes that match one key, several keys, or none.
MaxRoutes == 2
UserKeys == {"/user/42", "#!/user/(\\d+)", "#!/user/(.+)", "#!/user/(\\d+)/(\\d+)"}
UserTables ==
    {[i \in 1..Len(ks) |-> [key |-> ks[i], handler |-> Returns("false")]] :
        ks \in {q \in UNION {[1..n -> UserKeys] : n \in 1..MaxRoutes} :
                  \A i, j \in 1..Len(q) : i # j => q[i] # q[j]}}
UserHashes == {"#!/user/42", "#!/user/42/7", "#!/"}
NextMatch ==
    \/ \E t \in UserTables : page.root = NoNode /\ RouterInitWith("/", t)
    \/ \E h \in UserHashes : Go(h, Undefined)
    \/ Return
    \/ HashChange
    \/ Resume
    \/ Task

SpecMatch == InitState(FALSE) /\ [][NextMatch]_vars

\* Failing navigations: the page initialises the router once, with two
\* handlers that throw and the error route.
ErrorTable ==
    << [key |-> "/", handler |-> Returns("element")],
       [key |-> "/e", handler |-> Handler("throw", "no page")],
       [key |-> "/b", handler |-> Handler("throw", "a/b")],
       [key |-> "#!/error/(.+)", handler |-> Returns("element")] >>
ErrorHashes == {"#!/", "#!/e", "#!/b"}
NextErrors ==
    \/ page.root = NoNode /\ RouterInitWith("/", ErrorTable)
    \/ \E h \in ErrorHashes : Go(h, Undefined)
    \/ Observe("o")
    \/ Return
    \/ HashChange
    \/ Resume
    \/ Task

SpecErrors == InitState(FALSE) /\ [][NextErrors]_vars

\* The default route: the page initialises the router once, with either
\* default route and a table that does not hold it, and navigates between a
\* hash that matches, the two default-route hashes and a hash nothing matches.
DefaultRoutes == {"/", "#!/home"}
DefaultTable == << [key |-> "/user/42", handler |-> Returns("false")] >>
DefaultHashes == {"#!/user/42", "#!/", "#!/home", "#!/zz"}
NextDefault ==
    \/ \E d \in DefaultRoutes : page.root = NoNode /\ RouterInitWith(d, DefaultTable)
    \/ \E h \in DefaultHashes : Go(h, Undefined)
    \/ Return
    \/ HashChange
    \/ Resume
    \/ Task

SpecDefault == InitState(FALSE) /\ [][NextDefault]_vars

\* Rendering and the router state: navigations to the routes that build a
\* node and to the route that returns false, with and without data, while
\* the application observes router.state.
RenderHashes == {"#!/x", "#!/t", "#!/f"}
Data == {Undefined, Num(0), Num(1)}
NextRender ==
    \/ page.root = NoNode /\ RouterInit
    \/ \E h \in RenderHashes, d \in Data : Go(h, d)
    \/ SetData(Num(1))
    \/ Observe("o")
    \/ Return
    \/ HashChange
    \/ Resume
    \/ Task

SpecRender == InitState(FALSE) /\ [][NextRender]_vars

\* Removing the router: the page initialises the router, observes its state,
\* navigates, removes the router and may initialise it again.
RemoveHashes == {"#!/", "#!/x"}
NextRemove ==
    \/ RouterInit
    \/ \E h \in RemoveHashes : Go(h, Undefined)
    \/ Remove
    \/ Observe("o")
    \/ Return
    \/ HashChange
    \/ Resume
    \/ Task

SpecRemove == InitState(FALSE) /\ [][NextRemove]_vars

\* Lifecycle callbacks that throw: the page initialises the router once with
\* a route whose element throws from onmount and onunmount, a plain route and
\* the error route, and navigates between the two.
ThrowTable ==
    << [key |-> "/", handler |-> Handler("thrower", Message)],
       [key |-> "/x", handler |-> Returns("element")],
       [key |-> "#!/error/(.+)", handler |-> Returns("element")] >>
ThrowHashes == {"#!/", "#!/x"}
NextThrow ==
    \/ page.root = NoNode /\ RouterInitWith("/", ThrowTable)
    \/ \E h \in ThrowHashes : Go(h, Undefined)
    \/ Return
    \/ HashChange
    \/ Resume
    \/ Task

SpecThrow == InitState(FALSE) /\ [][NextThrow]_vars

\* Observables: the page constructs one Observable, of either class, holding
\* 0, and subscribes, unsubscribes, updates and assigns.
Observers == {"f", "g"}
Updaters == {Num(0), Num(1), Identity, Increment}
NextObservable ==
    \/ \E cls \in {"seui", "docs"} : NewObservable(cls, Num(0))
    \/ \E f \in Observers : ObservableSubscribe(f)
    \/ \E f \in Observers : ObservableUnsubscribe(f)
    \/ \E f \in Observers : ObservableCallUnsub(f)
    \/ \E x \in Updaters : ObservableUpdate(x)
    \/ \E v \in {Num(0), Num(1)} : ObservableSet(v)

SpecObservable == InitState(FALSE) /\ [][NextObservable]_vars

\* Observers that act: the page constructs an Observable of seui.js and
\* subscribes observers that unsubscribe themselves (quit), unsubscribe f
\* (drop) or subscribe g (join) when they are called.
Acting == {"f", "g", "quit", "drop", "join"}
NextPass ==
    \/ NewObservable("seui", Num(0))
    \/ \E f \in Acting : ObservableSubscribe(f)
    \/ \E f \in Acting : ObservableUnsubscribe(f)
    \/ \E x \in {Num(1), Increment} : ObservableUpdate(x)

SpecPass == InitState(FALSE) /\ [][NextPass]_vars

\* State construction: the page wraps one more target, of any kind, and
\* subscribes to the wrappers it has with a callback or with something that is
\* not a function.
Targets ==
    {Undefined, Null, Num(1), [t |-> "String", v |-> 0],
     [t |-> "Set", v |-> 0], [t |-> "Map", v |-> 0], Identity, Obj(2)}
NotFunction == "undefined"
NextConstruct ==
    \/ \E target \in Targets : NewState(target)
    \/ \E p \in Live, cb \in {"f", NotFunction} : Subscribe(p, cb, NullKey, FALSE)

SpecConstruct == InitState(FALSE) /\ [][NextConstruct]_vars

\* onceNavigate: the page registers callbacks for the next hashchange event,
\* calls the removal functions it got, and changes the hash.
OnceHashes == {"#!/", "#!/x"}
NextOnce ==
    \/ \E cb \in CB : OnceNavigate(cb)
    \/ \E i \in 1..MaxOnce : RemoveOnce(i)
    \/ \E h \in OnceHashes : Go(h, Undefined)
    \/ Return
    \/ HashChange
    \/ Task

SpecOnce == InitState(FALSE) /\ [][NextOnce]_vars

\* Overlapping navigations: the page initialises the router once with two
\* routes whose handlers return promises, the first of them the default
\* route, and navigates between them while the promises settle in any order.
RaceTable ==
    << [key |-> "/p", handler |-> Handler("promise", "")],
       [key |-> "/q", handler |-> Handler("promise", "")] >>
RaceHashes == {"#!/p", "#!/q"}
NextRace ==
    \/ page.root = NoNode /\ RouterInitWith("#!/p", RaceTable)
    \/ \E h \in RaceHashes : Go(h, Undefined)
    \/ Return
    \/ HashChange
    \/ \E i \in 1..MaxPasses : Settle(i, "node")
    \/ Resume
    \/ Task

SpecRace == InitState(FALSE) /\ [][NextRace]_vars

\* Redirect chains: the page initialises the router once with no error route,
\* a default route whose handler throws and a route whose handler returns
\* false, and navigates; the window keeps dispatching the hashchange events
\* and the suspended passes keep continuing.
ChainTable ==
    << [key |-> "/", handler |-> Handler("throw", Message)],
       [key |-> "/x", handler |-> Returns("false")] >>
ChainHashes == {"#!/", "#!/x", "#!/zz"}
NextChain ==
    \/ page.root = NoNode /\ RouterInitWith("/", ChainTable)
    \/ \E h \in ChainHashes : Go(h, Undefined)
    \/ Return
    \/ HashChange
    \/ Resume
    \/ Task

SpecChain ==
    /\ InitState(FALSE) /\ [][NextChain]_vars
    /\ WF_vars(HashChange) /\ WF_vars(Resume)

\* Aliases: the application also stores the nested object, which it holds a
\* reference to, under the root's "b", reads both properties, and assigns
\* and subscribes through the wrappers it gets.
NextAlias ==
    \/ Assign(1, "b", Obj(2))
    \/ \E p \in Live, k \in Keys : Get(p, k)
    \/ \E p \in Live \ {1}, v \in Nums : Assign(p, "b", v)
    \/ \E p \in Live, key \in {"b", NullKey} : Subscribe(p, "f", key, FALSE)

SpecAlias == InitState(FALSE) /\ [][NextAlias]_vars

\* Results that are not rendered: the page initialises the router once with
\* a route that renders an element, a route whose handler returns false and a
\* route whose handler returns a promise that rejects, and navigates.
StaleTable ==
    << [key |-> "/", handler |-> Returns("element")],
       [key |-> "/f", handler |-> Returns("false")],
       [key |-> "/p", handler |-> Handler("promise", Message)] >>
StaleHashes == {"#!/f", "#!/p"}
NextStale ==
    \/ page.root = NoNode /\ RouterInitWith("/", StaleTable)
    \/ \E h \in StaleHashes : Go(h, Undefined)
    \/ Return
    \/ HashChange
    \/ \E i \in 1..MaxPasses : Settle(i, "reject")
    \/ Resume
    \/ Task

SpecStale == InitState(FALSE) /\ [][NextStale]_vars

\* remove() during a navigation: the page initialises the router with a route
\* that renders an element and a route whose handler returns a promise,
\* navigates, and removes the router at any time, also while a pass is
\* suspended.
CancelTable ==
    << [key |-> "/", handler |-> Returns("element")],
       [key |-> "/p", handler |-> Handler("promise", "")] >>
NextCancel ==
    \/ page.root = NoNode /\ RouterInitWith("/", CancelTable)
    \/ Go("#!/p", Undefined)
    \/ Remove
    \/ Return
    \/ HashChange
    \/ \E i \in 1..MaxPasses : Settle(i, "node")
    \/ Resume
    \/ Task

SpecCancel == InitState(FALSE) /\ [][NextCancel]_vars

\* ------------------------------------------------------------------ claims
\* the callbacks registered on wrapper p in a scope (NullKey: the general
\* subscribers), in registration order
Regs(px, p, scope) ==
    IF scope = NullKey THEN px[p].subscribers
    ELSE IF scope \in DOMAIN px[p].propertySubscribers
         THEN px[p].propertySubscribers[scope]
         ELSE <<>>
ScopeOf(key) == IF Truthy(key) THEN key ELSE NullKey
\* how often a step invoked callback c through its registration on p in scope
Times(cs, p, c, scope) ==
    Cardinality({i \in 1..Len(cs) :
                    cs[i].node = p /\ cs[i].cb = c /\ cs[i].scope = scope})

\* C1: in synchronous mode a callback subscribed for key K is invoked exactly
\* once by an assignment to K of a value not identical to the stored one, and
\* not at all by an assignment of the identical value or to another key.
C1_KeySubscriberOncePerChange ==
    [][lastOp'.op = "set" =>
        LET p == lastOp'.p
            stored == Read(store, proxies[p].target, lastOp'.k)
        IN  \A K \in Keys : \A c \in Range(Regs(proxies, p, K)) :
                Times(calls', p, c, K) =
                    IF lastOp'.k = K /\ stored # lastOp'.v THEN 1 ELSE 0]_vars

C1_Witness ==
    /\ lastOp.op = "set"
    /\ \E i \in 1..Len(calls) : calls[i].scope = lastOp.k /\ calls[i].old # calls[i].new

\* C2: a changing assignment to K invokes every general subscriber, then every
\* subscriber of K, each once and in registration order (a new registration
\* goes last), with (the wrapper, K, old value, new value), the property
\* already holding the new value.
C2_NotifyOrderAndArguments ==
    [][/\ lastOp'.op = "set" =>
            LET p == lastOp'.p
                K == lastOp'.k
                stored == Read(store, proxies[p].target, K)
                g == Regs(proxies, p, NullKey)
                s == Regs(proxies, p, K)
            IN  stored # lastOp'.v =>
                  /\ Len(calls') = Len(g) + Len(s)
                  /\ \A i \in 1..Len(g) :
                        calls'[i].cb = g[i] /\ calls'[i].scope = NullKey
                  /\ \A i \in 1..Len(s) :
                        calls'[Len(g) + i].cb = s[i] /\ calls'[Len(g) + i].scope = K
                  /\ \A i \in 1..Len(calls') :
                        /\ calls'[i].target = Prx(p)
                        /\ calls'[i].key = K
                        /\ calls'[i].old = stored
                        /\ calls'[i].new = lastOp'.v
                        /\ calls'[i].seen = lastOp'.v
       /\ lastOp'.op = "subscribe" =>
            LET p == lastOp'.p
                sc == ScopeOf(lastOp'.k)
                was == Regs(proxies, p, sc)
            IN  Regs(proxies', p, sc) =
                    IF lastOp'.cb \in Range(was) THEN was
                    ELSE Append(was, lastOp'.cb)]_vars

C2_Witness ==
    /\ lastOp.op = "set"
    /\ Len(calls) >= 2
    /\ calls[1].scope = NullKey
    /\ calls[2].scope = lastOp.k
    /\ calls[2].seen = lastOp.v

C4_ReadWrapsOnce ==
    [][/\ lastOp'.op = "get" =>
            LET t == proxies[lastOp'.p].target
                k == lastOp'.k
                pre == store[t][k]
            IN  /\ calls' = <<>>
                /\ mq' = mq
                /\ pre.t = "object" =>
                      /\ lastOp'.ret = Prx(Len(proxies) + 1)
                      /\ Len(proxies') = Len(proxies) + 1
                      /\ proxies'[Len(proxies') ].target = pre.v
                      /\ store'[t][k] = lastOp'.ret
                /\ pre.t = "proxy" =>
                      /\ lastOp'.ret = pre
                      /\ store' = store
                      /\ proxies' = proxies
       /\ \A o \in 1..nobj, k \in Keys :
            (/\ store[o][k].t = "proxy"
             /\ ~(lastOp'.op \in {"set", "delete"} /\ lastOp'.k = k
                  /\ proxies[lastOp'.p].target = o))
            => store'[o][k] = store[o][k]]_vars

\* a wrapper read a second time, after a subscription was made through it
C4_Witness ==
    /\ lastOp.op = "get"
    /\ lastOp.ret.t = "proxy"
    /\ lastOp.ret.v <= Len(proxies)
    /\ NSubs(<<proxies[lastOp.ret.v]>>) > 0

\* C5: with S = f subscribed for "b" on node.a (the wrapper of the first nested
\* object, number 2): node.a.b = 2 invokes S once with (node.a, "b", 1, 2);
\* node.a = {..} invokes the root's subscribers (general and for "a") and not
\* S; a change through a wrapper of a replacement object never invokes S.
C5_ScenarioD ==
    [][lastOp'.op = "set" =>
        LET p == lastOp'.p
            k == lastOp'.k
            t == proxies[p].target
            stored == Read(store, t, k)
            S == {q \in 1..Len(proxies) :
                    proxies[q].target = 2 /\ "f" \in Range(Regs(proxies, q, "b"))}
        IN  /\ (p \in S /\ k = "b" /\ stored = Num(1) /\ lastOp'.v = Num(2)) =>
                  \E i \in 1..Len(calls') :
                      /\ calls'[i] = [node |-> p, cb |-> "f", scope |-> "b",
                                      target |-> Prx(p), key |-> "b",
                                      old |-> Num(1), new |-> Num(2),
                                      seen |-> Num(2)]
                      /\ \A j \in 1..Len(calls') :
                            (calls'[j].scope = "b" /\ calls'[j].node = p) => j = i
            /\ (p = 1 /\ k = "a" /\ lastOp'.v.t = "object") =>
                  /\ [i \in 1..Len(calls') |-> calls'[i].cb] =
                        Regs(proxies, 1, NullKey) \o Regs(proxies, 1, "a")
                  /\ \A i \in 1..Len(calls') : calls'[i].node \notin S \ {1}
            /\ t \notin {1, 2} =>
                  \A i \in 1..Len(calls') : calls'[i].node \notin S]_vars

\* S exists, node.a has been replaced and read again, and a change made through
\* the new node.a invoked a subscriber of the new wrapper
C5_Witness ==
    /\ lastOp.op = "set"
    /\ proxies[lastOp.p].target = 3
    /\ store[1]["a"] = Prx(lastOp.p)
    /\ calls # <<>>
    /\ \E q \in 1..Len(proxies) :
            proxies[q].target = 2 /\ "f" \in Range(Regs(proxies, q, "b"))

\* C6: calling the function subscribe returned, or unsubscribe(callback, key),
\* removes that callback from that scope and leaves every other registration,
\* in every scope, as it was (nothing changes when the callback is not
\* registered there); a change invokes only callbacks registered at that time.
C6_UnsubscribeExactlyOne ==
    [][/\ lastOp'.op \in {"un", "unsubscribe"} =>
            LET p == lastOp'.p
                sc == ScopeOf(lastOp'.k)
            IN  /\ \A q \in 1..Len(proxies), sp \in Keys \cup {NullKey} :
                      Regs(proxies', q, sp) =
                        IF q = p /\ sp = sc
                        THEN SelectSeq(Regs(proxies, q, sp),
                                       LAMBDA x : x # lastOp'.cb)
                        ELSE Regs(proxies, q, sp)
                /\ calls' = <<>>
                /\ store' = store
       /\ lastOp'.op = "set" =>
            \A i \in 1..Len(calls') :
                calls'[i].cb \in
                    Range(Regs(proxies, calls'[i].node, calls'[i].scope))]_vars

\* the returned function removed a registration while the same callback stays
\* registered in another scope
C6_Witness ==
    /\ lastOp.op = "un"
    /\ lastOp.ret = Bool(TRUE)
    /\ \E sp \in Keys \cup {NullKey} :
            sp # lastOp.k /\ lastOp.cb \in Range(Regs(proxies, lastOp.p, sp))

\* C7: deleting property K notifies (with new value undefined) only if K
\* existed on the target; deleting a property that does not exist invokes no
\* subscriber and changes nothing.
C7_DeleteNotifiesOnlyIfExisted ==
    [][lastOp'.op = "delete" =>
        LET p == lastOp'.p
            t == proxies[p].target
            existed == store[t][lastOp'.k] # Absent
        IN  /\ \A i \in 1..Len(calls') : calls'[i].new = Undefined
            /\ existed =>
                  Len(calls') = Len(Regs(proxies, p, NullKey))
                                + Len(Regs(proxies, p, lastOp'.k))
            /\ ~existed => (calls' = <<>> /\ store' = store)]_vars

\* C8: in asynchronous mode an assignment or delete invokes no subscriber; it
\* appends its invocations to the pending ones, each holding the old and new
\* value of that change; a subscriber runs only as the first pending
\* invocation, after the synchronous code has returned, with the values held.
C8_AsyncDeferredInOrder ==
    [][/\ lastOp'.op \in {"set", "delete"} =>
            LET p == lastOp'.p
                stored == Read(store, proxies[p].target, lastOp'.k)
                n == Len(mq)
            IN  /\ calls' = <<>>
                /\ Len(mq') >= n
                /\ SubSeq(mq', 1, n) = mq
                /\ \A i \in (n + 1)..Len(mq') :
                      /\ mq'[i].key = lastOp'.k
                      /\ mq'[i].old = stored
                      /\ mq'[i].new = lastOp'.v
                /\ lastOp'.op = "set" =>
                      Len(mq') - n =
                        IF stored # lastOp'.v
                        THEN Len(Regs(proxies, p, NullKey))
                             + Len(Regs(proxies, p, lastOp'.k))
                        ELSE 0
       /\ calls' # <<>> =>
            /\ lastOp'.op = "microtask"
            /\ ~inTask
            /\ mq # <<>>
            /\ mq' = Tail(mq)
            /\ calls' = <<[Head(mq) EXCEPT !.seen = calls'[1].seen]>>]_vars

\* a deferred invocation runs with the values of its change while the property
\* holds another value, and a later invocation of the same batch is pending
C8_Witness ==
    /\ lastOp.op = "microtask"
    /\ Len(calls) = 1
    /\ calls[1].seen # calls[1].new
    /\ mq # <<>>

\* the dispatches of one event type to node n in a step's log
Count(log, ev, n) ==
    Cardinality({i \in 1..Len(log) : log[i].ev = ev /\ log[i].n = n})
\* the step ran update() up to its await
Started == lastOp'.op \in {"router.init", "hashchange"}
\* ... with no other pass suspended, and suspended itself holding a node
StartedAlone ==
    /\ Started
    /\ page.micro = <<>> /\ page.pending = <<>>
    /\ Len(page'.micro) = 1 /\ page'.micro[1].t = "node"
\* the step continued the only suspended pass, which holds a node
ResumedAlone ==
    /\ lastOp'.op = "resume"
    /\ Len(page.micro) = 1 /\ page.pending = <<>>
    /\ Head(page.micro).t = "node"

\* C9: in a sequence of navigations that do not overlap, each matching a route
\* whose handler returns a node, a transition away from an active component
\* delivers the unmount event to that component exactly once, and then
\* delivers the mount event exactly once to the node it renders, which is the
\* one active component afterwards.
C9_OneUnmountThenOneMount ==
    [][ /\ (StartedAlone /\ page.active # NoNode)
            => Count(page'.log, "unmount", page.active) = 1
        /\ ResumedAlone
            => /\ Count(page'.log, "mount", Head(page.micro).n) = 1
               /\ page'.active = Head(page.micro).n ]_vars

\* the positions of an event type in a log
At(log, evs) == {i \in 1..Len(log) : log[i].ev \in evs}
\* the step called a route handler while a component was active
MatchedWhileActive ==
    /\ Started
    /\ page.active # NoNode
    /\ At(page'.log, {"handler"}) # {}

\* C10: when a route matches while a component is active, the
\* unmount event is delivered and the listeners are detached before the
\* matched handler is invoked.
C10_UnmountBeforeHandler ==
    [][ MatchedWhileActive
        => /\ At(page'.log, {"unmount"}) # {}
           /\ At(page'.log, {"detach"}) # {}
           /\ \A i \in At(page'.log, {"unmount", "detach"}),
                 j \in At(page'.log, {"handler"}) : i < j ]_vars

\* the key matches the location whose hash is h
KeyMatches(key, h) ==
    IF IsPattern(key) THEN RegExpMatch(key, URL(h)).ok ELSE h = "#!" \o key
\* the step made exactly one update() call
OnePass == Started /\ Count(page'.log, "update", NoNode) = 1

\* C11: the handler a resolution pass selects is determined by the table and
\* the location alone: a pass invokes exactly one handler when some key
\* matches (and none otherwise); its key matches; it is an exact key whenever
\* an exact key matches, wherever the pattern keys stand in the table; and no
\* matching key of its class stands before it in the table.
C11_ExactFirstThenInsertionOrder ==
    [][ OnePass
        => LET routes == page'.routes
               M == {i \in 1..Len(routes) : KeyMatches(routes[i].key, page.hash)}
               called == At(page'.log, {"handler"})
           IN  /\ Cardinality(called) = IF M = {} THEN 0 ELSE 1
               /\ \A c \in called :
                     LET i == page'.log[c].n
                     IN  /\ i \in M
                         /\ page'.log[c].s = routes[i].key
                         /\ (\E m \in M : ~IsPattern(routes[m].key))
                               => ~IsPattern(routes[i].key)
                         /\ \A m \in M :
                               IsPattern(routes[m].key) = IsPattern(routes[i].key)
                                 => i <= m ]_vars

\* a pass selected the exact key although a matching pattern key stands
\* before it, in a table that holds a second matching pattern key
C11_Witness ==
    /\ lastOp.op = "hashchange"
    /\ \E c \in At(page.log, {"handler"}) :
          /\ page.log[c].s = "/user/42"
          /\ page.log[c].n = 2
          /\ KeyMatches(page.routes[1].key, "#!/user/42")

\* encodeURIComponent(m) for the messages the handlers throw, written out
Encoded(m) ==
    IF m = "no page" THEN "no%20page"
    ELSE IF m = "a/b" THEN "a%2Fb"
    ELSE m
\* the step rendered nothing and left the router state as it was
NothingRendered ==
    /\ page'.nodes[Body] = page.nodes[Body]
    /\ page'.active = page.active
    /\ page'.value = page.value
    /\ At(page'.log, {"replace", "active", "mount", "notify"}) = {}

\* C12: when the matched handler throws an Error with message m, update()
\* catches it: the hash is set to "#!/error/" followed by the URL-encoded m,
\* the pass ends there, and it replaces no root content, sets no active
\* component, dispatches no mount event and does not update the router state.
C12_ThrowRedirectsToErrorRoute ==
    [][ \A c \in At(page'.log, {"handler"}) :
              (OnePass /\ page'.routes[page'.log[c].n].handler.do = "throw")
              => /\ page'.hash = "#!/error/"
                        \o Encoded(page'.routes[page'.log[c].n].handler.message)
                 /\ page'.log[Len(page'.log)].ev = "hash"
                 /\ page'.log[Len(page'.log)].s = page'.hash
                 /\ page'.micro = page.micro /\ page'.pending = page.pending
                 /\ NothingRendered ]_vars

\* a handler threw "no page" while a component was active
C12_Witness ==
    /\ lastOp.op = "hashchange"
    /\ page.hash = "#!/error/no%20page"
    /\ page.active # NoNode
    /\ At(page.log, {"handler"}) # {}

\* the hash the default route stands for
DefaultHash(d) == IF IsPattern(d) THEN d ELSE "#!" \o d

\* C13: when no route key matches, the router sets the hash to the default
\* route's hash if the current hash differs from it, and performs no hash
\* assignment at all when the current hash already equals it.
C13_RedirectUnlessAtDefault ==
    [][ (OnePass /\ \A i \in 1..Len(page'.routes) :
                       ~KeyMatches(page'.routes[i].key, page.hash))
        => IF page.hash # DefaultHash(page'.defaultRoute)
           THEN /\ page'.hash = DefaultHash(page'.defaultRoute)
                /\ Cardinality(At(page'.log, {"hash"})) = 1
           ELSE At(page'.log, {"hash"}) = {} ]_vars

\* the step continued a suspended pass whose handler's result is of kind t
Resumed(t) == lastOp'.op = "resume" /\ Head(page.micro).t = t
\* the step's log ends with one notification per registered observer, each
\* called with the new and the old value of router.state
NotifiedOnce ==
    LET log == page'.log
        k == Len(page.observers)
    IN  /\ Cardinality(At(log, {"notify"})) = k
        /\ \A i \in 1..k :
              LET e == log[Len(log) - k + i]
              IN  /\ e.ev = "notify" /\ e.s = page.observers[i]
                  /\ e.args = <<page'.value, page.value>>

\* C14: when the awaited result is a node, the pass first replaces the
\* root's children by what the node holds (the node itself, or the children
\* of a fragment), then records the node as the active component, then
\* dispatches the mount event, and only then updates router.state to this
\* navigation's newURL and oldURL, keeping the data it held; every
\* registered observer is notified once, at the end.
C14_RenderActiveMountThenState ==
    [][ Resumed("node")
        => LET pass == Head(page.micro)
               n == pass.n
               log == page'.log
               k == Len(page.observers)
           IN  /\ log[1] = Entry("replace", n, "")
               /\ log[2] = Entry("active", n, "")
               /\ Len(log) - k >= 3
               /\ \A i \in 3..(Len(log) - k) : log[i].ev = "mount"
               /\ Count(log, "mount", Body) = 1
               /\ NotifiedOnce
               /\ page'.nodes[Body].childNodes
                    = IF page.nodes[n].kind = "fragment"
                      THEN page.nodes[n].childNodes ELSE <<n>>
               /\ page'.active = n
               /\ page'.value = [newURL |-> pass.newURL, oldURL |-> pass.oldURL,
                                 data |-> page.value.data] ]_vars

\* a fragment was rendered over another component, its mount listeners ran,
\* and the observer was told of the navigation, the data set by go() kept
C14_Witness ==
    /\ lastOp.op = "resume"
    /\ Len(page.log) >= 5
    /\ page.log[1].ev = "replace"
    /\ page.log[3].ev = "mount" /\ page.log[3].heard
    /\ page.nodes[page.log[3].n].kind = "fragment"
    /\ page.log[Len(page.log)].ev = "notify"
    /\ page.value.data = Num(1)
    /\ page.value.newURL = URL("#!/x")

\* C15: however often init is called (with no remove in between), the
\* router has exactly one hashchange listener attached afterwards; each init
\* call makes one update() call at once, and each hashchange event
\* dispatched after it makes exactly one.
C15_OneListenerOnePassPerEvent ==
    [][ /\ lastOp'.op = "router.init"
            => /\ page'.bound /\ page'.attached = 1
               /\ Count(page'.log, "update", NoNode) = 1
        /\ (lastOp'.op = "hashchange" /\ page.bound)
            => Count(page'.log, "update", NoNode) = 1 ]_vars

\* The first hashchange event of the page (its oldURL has no fragment) is
\* dispatched after two passes have rendered an element each: both came from
\* init calls.  The event starts one pass.
C15_WitnessEventAfterTwoInits ==
    /\ lastOp.op = "hashchange"
    /\ page.attached = 1
    /\ Count(page.log, "update", NoNode) = 1
    /\ Len(page.micro) = 1
    /\ page.micro[1].oldURL = Base
    /\ page.micro[1].n = 4
    /\ page.nodes[2].kind = "element" /\ page.nodes[3].kind = "element"

\* C16: after remove() the router is back in its initial state: no root, an
\* empty route table, router.state holding {newURL: "", oldURL: "", data:
\* null} with no observers, none of them notified of the reset, no active
\* component retained, and no hashchange listener attached, so that a later
\* hashchange event starts no pass.
C16_RemoveClearsEverything ==
    [][ /\ lastOp'.op = "remove"
            => /\ page'.root = NoNode
               /\ page'.defaultRoute = ""
               /\ page'.routes = <<>>
               /\ page'.value = InitialValue
               /\ page'.observers = <<>>
               /\ At(page'.log, {"notify"}) = {}
               /\ ~page'.bound /\ page'.attached = 0
               /\ page'.active = NoNode
        /\ (lastOp'.op = "hashchange" /\ ~page.bound)
            => At(page'.log, {"update"}) = {} ]_vars

\* C17: when the handler's result is not a node (it returned false), the
\* pass leaves the root's content and the active component as they were and
\* dispatches no mount event, from the handler call to its end; it still
\* updates router.state to the navigation's newURL and oldURL and notifies
\* the observers.
C17_NonNodeSkipsRenderKeepsBookkeeping ==
    [][ /\ \A c \in At(page'.log, {"handler"}) :
              (OnePass /\ page'.routes[page'.log[c].n].handler.do = "false")
              => /\ page'.nodes[Body].childNodes = page.nodes[Body].childNodes
                 /\ page'.active = page.active
                 /\ At(page'.log, {"replace", "active", "mount"}) = {}
        /\ Resumed("false")
              => /\ page'.nodes = page.nodes
                 /\ page'.active = page.active
                 /\ At(page'.log, {"replace", "active", "mount"}) = {}
                 /\ page'.value = [newURL |-> Head(page.micro).newURL,
                                   oldURL |-> Head(page.micro).oldURL,
                                   data |-> page.value.data]
                 /\ NotifiedOnce ]_vars

\* the pass for "#!/f" ended over a rendered component: the observer was
\* notified and nothing else happened
C17_Witness ==
    /\ lastOp.op = "resume"
    /\ page.active # NoNode
    /\ page.value.newURL = URL("#!/f")
    /\ Len(page.log) = 1
    /\ page.log[1].ev = "notify"
    /\ page.nodes[Body].childNodes # <<>>

\* C18: go(hash, data) with a data argument other than undefined sets
\* state.data to it and notifies the observers inside the call, before any
\* pass for the new hash runs, newURL and oldURL staying as they are; go(hash)
\* without data leaves router.state untouched.
C18_GoSetsDataAtOnce ==
    [][ lastOp'.op = "go"
        => IF lastOp'.v # Undefined
           THEN /\ page'.value = [page.value EXCEPT !.data = lastOp'.v]
                /\ NotifiedOnce
                /\ At(page'.log, {"update"}) = {}
           ELSE /\ page'.value = page.value
                /\ At(page'.log, {"notify"}) = {} ]_vars

\* the groups the user patterns capture in the user hashes, written out
UserGroups(key, h) ==
    IF key = "#!/user/(\\d+)/(\\d+)" THEN <<"42", "7">>
    ELSE IF key = "#!/user/(.+)" /\ h = "#!/user/42/7" THEN <<"42/7">>
    ELSE <<"42">>
\* the (newURL, oldURL) the step's update() call was made with
CallURLs ==
    IF lastOp'.op = "router.init"
    THEN [newURL |-> URL(page.hash), oldURL |-> ""]
    ELSE Head(page.events)

\* C19: the selected handler is called with (oldURL, newURL) when its key is
\* an exact key, and with (oldURL, newURL, g1, ..., gn) when its key is a
\* pattern, g1..gn being the groups the pattern captures in the location, in
\* order: "#!/user/(\d+)" at "#!/user/42" passes "42" as third argument.
C19_HandlerArguments ==
    [][ OnePass
        => \A c \in At(page'.log, {"handler"}) :
              LET key == page'.log[c].s
              IN  page'.log[c].args
                    = <<CallURLs.oldURL, CallURLs.newURL>>
                      \o (IF IsPattern(key) THEN UserGroups(key, page.hash)
                          ELSE <<>>) ]_vars

\* the two-group pattern was selected at "#!/user/42/7": the handler got
\* "42" and "7" after the two URLs
C19_Witness ==
    /\ lastOp.op = "hashchange"
    /\ \E c \in At(page.log, {"handler"}) :
          /\ page.log[c].s = "#!/user/(\\d+)/(\\d+)"
          /\ page.log[c].args
               = <<URL("#!/user/42"), URL("#!/user/42/7"), "42", "7">>

\* the messages the failing handlers throw
ThrownMessages == {"no page", "a/b"}

\* C20: after a navigation failed with message m, the handler registered
\* under "#!/error/(.+)" is called with m itself, decoded, as its group
\* argument, also when m holds characters that URL-encoding escapes.
C20_ErrorRouteGetsDecodedMessage ==
    [][ OnePass
        => \A c \in At(page'.log, {"handler"}), m \in ThrownMessages :
              (/\ page'.log[c].s = "#!/error/(.+)"
               /\ page.hash = "#!/error/" \o Encoded(m))
              => page'.log[c].args[3] = m ]_vars

\* the dispatches of a log that called a lifecycle callback which threw
Threw(pg) ==
    {i \in At(pg.log, {"mount", "unmount"}) :
        pg.log[i].heard /\ pg.nodes[pg.log[i].n].throws # ""}

\* C21: an exception thrown by a component's onunmount or onmount callback
\* while the signal is delivered is caught by update() and turned into a
\* redirect to the error route, as for a handler that throws: the hash is set
\* to "#!/error/" followed by the encoded message, and the exception is never
\* left unhandled.
C21_LifecycleThrowRedirects ==
    [][ \A i \in Threw(page') :
            /\ page'.hash = "#!/error/"
                   \o Encoded(page'.nodes[page'.log[i].n].throws)
            /\ \E j \in At(page'.log, {"hash"}) :
                   j > i /\ page'.log[j].s = page'.hash
            /\ At(page'.log, {"report"}) = {} ]_vars

\* the calls of observers in a log, in order
ObserverCalls(log) == SelectSeq(log, LAMBDA e : e.ev = "observer")

\* C22: Observable.update(x) replaces the value, with x(current value) when x
\* is callable and with x otherwise, and then invokes every registered
\* observer exactly once, in subscription order, with (new value, value
\* before the update), whether or not the value changed: update(v => v)
\* leaves the value as it was and still invokes every observer.
C22_UpdateNotifiesUnconditionally ==
    [][ lastOp'.op = "observable.update"
        => LET x == lastOp'.v
               old == page.obs.value
               new == page'.obs.value
               called == ObserverCalls(page'.log)
           IN  /\ x = Identity => new = old
               /\ x = Increment => new = Num(old.v + 1)
               /\ x.t # "function" => new = x
               /\ page'.obs.observers = page.obs.observers
               /\ Len(called) = Len(page.obs.observers)
               /\ \A i \in 1..Len(called) :
                     /\ called[i].s = page.obs.observers[i]
                     /\ called[i].args[1] = new
                     /\ called[i].args[2] = old ]_vars

\* update(v => v) has run with two different observers registered
C22_Witness ==
    /\ lastOp.op = "observable.update"
    /\ lastOp.v = Identity
    /\ Len(page.obs.observers) >= 2
    /\ page.obs.observers[1] # page.obs.observers[2]
    /\ Len(ObserverCalls(page.log)) = Len(page.obs.observers)

\* the positions of an observer in an observers array
Registered(observers, f) == {i \in 1..Len(observers) : observers[i] = f}

\* C23: an Observable does not deduplicate: a subscribe call appends the
\* observer even when it is registered already, an observer registered k
\* times is invoked k times per update, at its k positions in subscription
\* order, and one unsubscribe(observer) call, or one call of an unsubscribe
\* function returned for it, removes all its registrations and keeps the
\* other observers in their order.
C23_NoDedupUnsubscribeRemovesAll ==
    [][ LET before == page.obs.observers
            after == page'.obs.observers
            f == lastOp'.k
            called == ObserverCalls(page'.log)
            kept == {i \in 1..Len(before) : before[i] # f}
        IN  /\ lastOp'.op = "observable.subscribe"
                => /\ Len(after) = Len(before) + 1
                   /\ after[Len(after)] = f
                   /\ \A i \in 1..Len(before) : after[i] = before[i]
            /\ lastOp'.op = "observable.update"
                => \A g \in Observers :
                      {i \in 1..Len(called) : called[i].s = g}
                          = Registered(before, g)
            /\ lastOp'.op \in {"observable.unsubscribe", "observable.unsub()"}
                => /\ Registered(after, f) = {}
                   /\ Len(after) = Cardinality(kept)
                   /\ \A i \in kept :
                         after[Cardinality({j \in kept : j <= i})] = before[i]
      ]_vars

\* an update has invoked an observer at its two positions, another observer
\* standing between them
C23_Witness ==
    /\ lastOp.op = "observable.update"
    /\ page.obs.observers = <<"f", "g", "f">>
    /\ {i \in 1..Len(page.log) : page.log[i].s = "f"} = {1, 3}

\* C24: in the Observable class seui.js exports, the assignment
\* observable.value = v stores v as the value and invokes no observer; the
\* registrations stay as they are.
C24_SetterSilent ==
    [][ (lastOp'.op = "observable.set" /\ page.obs.cls = "seui")
        => /\ page'.obs.value = lastOp'.v
           /\ page'.log = <<>>
           /\ page'.obs.observers = page.obs.observers ]_vars

\* an assignment has replaced the value of an Observable of seui.js that has
\* an observer
C24_Witness ==
    /\ lastOp.op = "observable.set"
    /\ page.obs.cls = "seui"
    /\ page.obs.observers # <<>>
    /\ page.obs.value = Num(1)
    /\ page.log = <<>>

\* C25: in the Observable class of docs/observer-pattern, the assignment
\* observable.value = v leaves the value equal to v and invokes every
\* registered observer exactly once with (v, the value before the assignment).
C25_StandaloneSetterNotifies ==
    [][ (lastOp'.op = "observable.set" /\ page.obs.cls = "docs")
        => LET called == ObserverCalls(page'.log)
           IN  /\ page'.obs.value = lastOp'.v
               /\ Len(called) = Len(page.obs.observers)
               /\ \A i \in 1..Len(called) :
                     /\ called[i].s = page.obs.observers[i]
                     /\ called[i].args[1] = lastOp'.v
                     /\ called[i].args[2] = page.obs.value ]_vars

\* C26: a callback subscribed without a key on the root State object is
\* invoked for a change anywhere in the state graph: an assignment that
\* changes a property of the nested object the root holds invokes every such
\* callback of the root.
C26_RootSubscriberSeesNestedChange ==
    [][ (/\ lastOp'.op = "set"
         /\ lastOp'.p # 1
         /\ store[1]["a"] = Prx(lastOp'.p)
         /\ Read(store, proxies[lastOp'.p].target, lastOp'.k) # lastOp'.v)
        => \A i \in 1..Len(Regs(proxies, 1, NullKey)) :
              \E j \in 1..Len(calls') :
                  /\ calls'[j].node = 1
                  /\ calls'[j].cb = Regs(proxies, 1, NullKey)[i] ]_vars

\* the targets State wraps as { value: target }
Primitive(target) ==
    target.t \in {"undefined", "string", "number", "boolean", "bigint", "symbol",
                  "null", "String", "Boolean", "Number"}

\* C27: construction errors are raised synchronously and leave nothing
\* behind: State(target) throws for a Set, a Map or a function, with an Error
\* that names the kind, and creates no wrapper; subscribe(callback) throws
\* when callback is not a function and adds no registration; a primitive,
\* null or a boxed primitive is wrapped as a node whose single data key is
\* "value", holding the target.
C27_ConstructionErrors ==
    [][ /\ (lastOp'.op = "State" /\ lastOp'.v.t \in {"Set", "Map", "function"})
            => /\ lastOp'.ret.t = "error"
               /\ IndexOf(lastOp'.ret.message,
                          "\"" \o lastOp'.v.t \o "\"") > 0
               /\ UNCHANGED <<store, nobj, proxies, closures, mq, calls>>
        /\ (lastOp'.op = "State" /\ Primitive(lastOp'.v))
            => /\ lastOp'.ret = Prx(Len(proxies'))
               /\ Len(proxies') = Len(proxies) + 1
               /\ LET node == proxies'[Len(proxies')]
                  IN  /\ node.target = nobj'
                      /\ nobj' = nobj + 1
                      /\ DOMAIN store'[node.target] = {"value"}
                      /\ store'[node.target]["value"] = lastOp'.v
                      /\ node.subscribers = <<>>
        /\ (lastOp'.op = "subscribe" /\ lastOp'.cb \notin CB)
            => /\ lastOp'.ret.t = "error"
               /\ UNCHANGED <<store, nobj, proxies, closures, mq, calls>>
      ]_vars

\* State(new Map()) has thrown, null having been wrapped before
C27_Witness ==
    /\ lastOp.op = "State"
    /\ lastOp.v.t = "Map"
    /\ lastOp.ret.t = "error"
    /\ Len(proxies) = 2
    /\ store[proxies[2].target] = [k \in {"value"} |-> Null]

\* the positions in a log of an event type for onceNavigate listener i
OnceAt(log, ev, i) == {j \in 1..Len(log) : log[j].ev = ev /\ log[j].n = i}

\* C28: onceNavigate(callback) invokes callback at most once over any
\* sequence of hashchange events: a hashchange event dispatched while the
\* listener is attached (the first one after the registration) calls callback
\* once, with the event, after the listener has removed itself; a listener
\* that has fired, or whose removal function has been called, is detached,
\* stays detached, and no later event calls its callback.
C28_OnceNavigateAtMostOnce ==
    [][ \A i \in 1..Len(page.once) :
          LET called == OnceAt(page'.log, "callback", i)
              removed == OnceAt(page'.log, "removeEventListener", i)
          IN  /\ (lastOp'.op = "hashchange" /\ page.once[i].attached)
                  => /\ Cardinality(called) = 1
                     /\ removed # {}
                     /\ \A r \in removed, c \in called :
                           /\ r < c
                           /\ page'.log[c].s = page.once[i].callback
                           /\ page'.log[c].args = <<Head(page.events)>>
                     /\ ~page'.once[i].attached
              /\ (lastOp'.op # "hashchange" \/ ~page.once[i].attached)
                  => called = {}
              /\ (lastOp'.op = "onceNavigate.remove" /\ lastOp'.v = Num(i))
                  => ~page'.once[i].attached
              /\ ~page.once[i].attached => ~page'.once[i].attached
              /\ page'.once[i].callback = page.once[i].callback ]_vars

\* a hashchange event has called the callback of the second listener and not
\* that of the first, which was detached before
C28_Witness ==
    /\ lastOp.op = "hashchange"
    /\ Len(page.once) = 2
    /\ OnceAt(page.log, "callback", 1) = {}
    /\ OnceAt(page.log, "removeEventListener", 2) = {1}
    /\ OnceAt(page.log, "callback", 2) = {2}

\* what a navigation leaves behind: the root content, the active component
\* and the URLs of the router state
Outcome(pg) ==
    <<pg.nodes[Body].childNodes, pg.active, pg.value.newURL, pg.value.oldURL>>

\* C29: navigations that overlap are rendered in the order in which their
\* handlers complete: a pass continues when its handler's promise settles,
\* in settling order, whichever pass started first; it then puts its result
\* in the root, makes it the active component and writes its newURL and
\* oldURL to the router state; nothing else changes these, so after both
\* passes they are those of the handler that completed last.
C29_LastCompletedRenderWins ==
    [][ /\ lastOp'.op = "settle"
            => \E i \in 1..Len(page.pending) :
                  /\ Len(page'.micro) = Len(page.micro) + 1
                  /\ LET done == page'.micro[Len(page'.micro)]
                     IN  /\ done.newURL = page.pending[i].newURL
                         /\ done.oldURL = page.pending[i].oldURL
                         /\ done.t = "node"
        /\ lastOp'.op = "resume"
            => LET pass == Head(page.micro)
               IN  Outcome(page')
                     = <<(<<pass.n>>), pass.n, pass.newURL, pass.oldURL>>
        /\ lastOp'.op \notin {"resume", "router.init"}
            => Outcome(page') = Outcome(page) ]_vars

\* both passes have rendered; the navigation to "#!/p" started first and its
\* handler completed last: its render stands although the location is "#!/q"
C29_Witness ==
    /\ lastOp.op = "resume"
    /\ page.pending = <<>> /\ page.micro = <<>> /\ page.events = <<>>
    /\ page.hash = "#!/q"
    /\ page.value.newURL = URL("#!/p")
    /\ Len(page.nodes) = 3
    /\ page.active = 3

\* the passes suspended at their await
Suspended(pg) == Len(pg.pending) + Len(pg.micro)

\* C30: a resolution pass runs its unmount-then-mount sequence without
\* another pass interleaving: no pass begins (delivers its unmount signal and
\* suspends) while another pass is suspended between its unmount and its
\* mount, and a pass that replaces the root content replaces a component
\* that has received the unmount signal and had its listeners detached since
\* it was mounted.
C30_UnmountMountNotInterleaved ==
    [][ /\ Suspended(page') > Suspended(page) => Suspended(page) = 0
        /\ (/\ lastOp'.op = "resume"
            /\ Head(page.micro).t = "node"
            /\ page.active # NoNode)
            => ~page.nodes[page.active].listeners ]_vars

\* no resolution pass is pending: no hashchange event waits and no pass is
\* suspended
Quiet ==
    /\ page.events = <<>>
    /\ page.micro = <<>>
    /\ page.pending = <<>>

\* C31: with a fixed route table and default route, the chain of hash
\* assignments the router itself makes (default-route and error-route
\* redirects, each starting a further pass) is finite: once the application
\* stops navigating, the router reaches a state in which no resolution pass
\* is pending and stays there, also when a handler throws and no error route
\* is registered.
C31_RedirectChainEnds == <>[](~inTask) => <>[]Quiet

\* the wrappers of the object a wrapper wraps, the wrapper itself excluded
Aliases(px, p) == {q \in 1..Len(px) : q # p /\ px[q].target = px[p].target}

C34_RemoveDoesNotCancel ==
    [][ /\ lastOp'.op = "remove"
            => /\ page'.pending = page.pending
               /\ page'.micro = page.micro
        /\ (/\ lastOp'.op = "resume"
            /\ Head(page.micro).t = "node"
            /\ Head(page.micro).root # NoNode)
            => LET pass == Head(page.micro)
               IN  /\ page'.nodes[pass.root].childNodes = <<pass.n>>
                   /\ page'.active = pass.n
                   /\ Count(page'.log, "mount", pass.n) = 1
                   /\ page'.value.newURL = pass.newURL
                   /\ page'.value.oldURL = pass.oldURL ]_vars

\* a pass has rendered after remove(): the router has no root, no routes and
\* no listener, and yet an active component and the URLs of a navigation
C34_Witness ==
    /\ lastOp.op = "resume"
    /\ page.root = NoNode /\ page.routes = <<>> /\ ~page.bound
    /\ page.active # NoNode
    /\ page.nodes[Body].childNodes = <<page.active>>
    /\ At(page.log, {"mount"}) # {}
    /\ page.value.newURL = URL("#!/p")

\* C35: update() selects the route by the location as it is when update()
\* runs, not by the newURL it was passed: the handler a hashchange pass calls
\* is the one whose key matches the current hash, and it is handed the
\* event's oldURL and newURL, also when the hash has changed again since the
\* event was queued, so the handler for the intermediate hash is not called
\* and the newURL handed over differs from the URL that selected the handler.
C35_SelectionByCurrentHash ==
    [][ lastOp'.op = "hashchange"
        => \A c \in At(page'.log, {"handler"}) :
              /\ KeyMatches(page'.log[c].s, page.hash)
              /\ page'.log[c].args[1] = Head(page.events).oldURL
              /\ page'.log[c].args[2] = Head(page.events).newURL ]_vars

\* the hash was changed twice before the first event was dispatched: the
\* pass for the first event has called the handler of the final hash "#!/x"
\* with the newURL of the intermediate hash "#!/t"
C35_Witness ==
    /\ lastOp.op = "hashchange"
    /\ page.hash = "#!/x"
    /\ Len(page.events) = 1
    /\ \E c \in At(page.log, {"handler"}) :
          /\ page.log[c].s = "/x"
          /\ page.log[c].args[2] = URL("#!/t")

\* the callback is registered on wrapper p in the scope
IsRegistered(px, p, cb, scope) == cb \in Range(Regs(px, p, scope))

\* C36: in asynchronous mode unsubscribing does not cancel deliveries that
\* are scheduled already: an unsubscribe leaves the pending invocations as
\* they are, a pending invocation calls its callback once when it runs,
\* whether or not the callback is still subscribed, and a change schedules
\* invocations only for the callbacks registered when it is made.
C36_UnsubscribeKeepsScheduled ==
    [][ /\ lastOp'.op = "unsubscribe" => mq' = mq
        /\ lastOp'.op = "microtask"
            => /\ Len(calls') = 1
               /\ calls'[1].cb = Head(mq).cb
               /\ calls'[1].key = Head(mq).key
               /\ calls'[1].old = Head(mq).old
               /\ calls'[1].new = Head(mq).new
               /\ mq' = Tail(mq)
        /\ lastOp'.op \in {"set", "delete"}
            => \A i \in (Len(mq) + 1)..Len(mq') :
                  IsRegistered(proxies, mq'[i].node, mq'[i].cb, mq'[i].scope)
      ]_vars

\* a pending invocation has called a callback that was unsubscribed after the
\* change and before the invocation ran
C36_Witness ==
    /\ lastOp.op = "microtask"
    /\ Len(calls) = 1
    /\ ~IsRegistered(proxies, calls[1].node, calls[1].cb, calls[1].scope)

\* the number of entries of an observers array, or of calls, for an observer
Entries(observers, f) == Cardinality(Registered(observers, f))

\* C37: Observable.update invokes every observer registered when the update
\* began, once per registration and in registration order, even if an
\* observer unsubscribes itself or another observer during the update; an
\* observer unsubscribed during the pass is not registered afterwards, so
\* later updates do not invoke it, and an observer subscribed during the pass
\* is not invoked in this pass and is registered for the next one.
C37_PassCallsObserversOfItsStart ==
    [][ lastOp'.op = "observable.update"
        => LET before == page.obs.observers
               after == page'.obs.observers
               called == ObserverCalls(page'.log)
           IN  /\ Len(called) = Len(before)
               /\ \A i \in 1..Len(called) : called[i].s = before[i]
               /\ "quit" \in Range(before) => "quit" \notin Range(after)
               /\ "drop" \in Range(before) => "f" \notin Range(after)
               /\ "join" \in Range(before)
                     => /\ Entries(after, "g")
                              = Entries(before, "g") + Entries(before, "join")
                        /\ Len(SelectSeq(called, LAMBDA c : c.s = "g"))
                              = Entries(before, "g")
               /\ \A f \in Range(after) : f \in Range(before) \/ f = "g"
      ]_vars

\* an update has called drop, which unsubscribed f, and then f; and it has
\* called join, which subscribed g, and not g
C37_Witness ==
    /\ lastOp.op = "observable.update"
    /\ LET called == ObserverCalls(page.log)
       IN  /\ Len(called) = 3
           /\ called[1].s = "drop"
           /\ called[2].s = "f"
           /\ called[3].s = "join"
    /\ page.obs.observers = <<"drop", "join", "g">>

\* the falsy values the application passes as specificKey
FalsyKeys == {"", ZeroKey}

CallsFor(cs, cb, scope) ==
    SelectSeq(cs, LAMBDA c : c.cb = cb /\ c.scope = scope)

\* C39: a subscriber set holds a callback at most once: subscribing a callback
\* that is registered in the scope already leaves the set as it is, a change
\* invokes the callback once per scope it is registered in, and a call of the
\* function a subscribe call returned removes the callback from the scope
\* entirely, however many times it was subscribed there.
C39_SubscriberSetsHoldCallbackOnce ==
    [][ /\ lastOp'.op = "subscribe"
            /\ lastOp'.cb \in Range(Regs(proxies, 1, lastOp'.k))
            => proxies' = proxies
        /\ \A key \in Keys \cup {NullKey} :
              Entries(Regs(proxies', 1, key), "f") <= 1
        /\ lastOp'.op = "set"
            => \A key \in Keys \cup {NullKey} :
                  Len(CallsFor(calls', "f", key)) <= 1
        /\ lastOp'.op = "set" /\ store'[1][lastOp'.k] # store[1][lastOp'.k]
            => \A key \in {lastOp'.k, NullKey} :
                  "f" \in Range(Regs(proxies, 1, key))
                     => Len(CallsFor(calls', "f", key)) = 1
        /\ lastOp'.op = "un"
            => lastOp'.cb \notin Range(Regs(proxies', 1, lastOp'.k))
      ]_vars

\* the function the second subscribe call returned has been called, and the
\* callback, subscribed twice in the scope, is registered there no more
C39_Witness ==
    /\ lastOp.op = "un"
    /\ lastOp.cb = "f"
    /\ lastOp.k = NullKey
    /\ "f" \notin Range(Regs(proxies, 1, NullKey))

\* the invocations a step has added at the end of the microtask queue
Added(q, q2, taken) ==
    SubSeq(q2, Len(q) - taken + 1, Len(q2))

====
